---- MODULE Spec2Model ----
(***************************************************************************)
(* Verification model of the aws-ecs-infrastructure-cdk repository:        *)
(*   - the three holiday-aware business-hours scheduler Lambda handlers    *)
(*     (ecs-business-hours, rds-business-hours, ec2-business-hours) and    *)
(*     the shared isJapanHolidayJst calendar test;                         *)
(*   - the CloudWatch-Logs -> Firehose transform Lambda;                   *)
(*   - the SSM "Parameter Bridge" between the CDK stacks and the order in  *)
(*     which the stacks of one environment are deployed.                   *)
(* Each subsystem has its own specification over the shared variables; the *)
(* variables of the other subsystems stay at their idle values.            *)
(***************************************************************************)
EXTENDS Integers, Sequences, FiniteSets, TLC

VARIABLES
  fn,        \* scheduler: which Lambda function this behaviour exercises
  now,       \* scheduler: new Date() of the current invocation, [day, hour] in UTC
  action,    \* scheduler: event.action of the current invocation
  pc,        \* scheduler: position of the handler ("idle", "poll", "done")
  attempt,   \* ec2 handler: loop counter i of the DNS polling loop
  calls,     \* scheduler: provider commands sent by the current invocation
  faults,    \* scheduler: commands of this invocation that the provider rejected transiently
  ret,       \* scheduler: what the invocation returned ("skipped", "ok", "notok", "threw")
  inst,      \* EC2: [state, ip] of the bastion instance
  db,        \* RDS: DBInstanceStatus
  svc,       \* ECS: desiredCount of each service
  before,    \* scheduler: state of the target resource when the invocation began
  dnsCfg,    \* ec2 handler: HOSTED_ZONE_ID && RECORD_NAME
  dns        \* Route53: value of the A record

schedVars == <<fn, now, action, pc, attempt, calls, faults, ret, inst, db, svc, before, dnsCfg, dns>>

VARIABLES
  project,        \* bin/app.ts: the `project` context value
  environment,    \* bin/app.ts: the `env` context value
  alarmsEnabled,  \* bin/app.ts: whether the app instantiates AlarmsStack
  store,          \* SSM Parameter Store: parameter name -> value, or Absent
  expect,         \* what a key-value map with upsert/delete semantics would hold
  stk,            \* CloudFormation: stack -> the version deployed, or Absent
  run,            \* the current `cdk deploy` run: "none", "active" or "failed"
  done,           \* the stacks the current run has deployed so far
  lastDeploy,     \* the last stack deployment: [stack, ok]
  imported,       \* synth: getSecretArnByName found the credential secrets
  secretsExist,   \* Secrets Manager: the credential secrets exist
  rdsOwnsSecrets, \* CloudFormation: the deployed RDS template declares the secrets
  extOps          \* number of out-of-band writes to the parameter store so far

deployVars == <<project, environment, alarmsEnabled, store, expect, stk, run, done,
                lastDeploy, imported, secretsExist, rdsOwnsSecrets, extOps>>

VARIABLES
  event,        \* log transform: the FirehoseTransformationEvent of the invocation
  idx,          \* log transform: position of the handler's loop in event.records
  transformed,  \* log transform: the handler's array of result records
  returned      \* log transform: the handler has returned { records: transformed }

logVars == <<event, idx, transformed, returned>>

VARIABLES
  dbEnv,        \* db-init: process.env (DB_HOST, DB_NAME)
  secretStore,  \* Secrets Manager: the password in each credential secret
  adminPass,    \* MySQL: the administrator's password
  accounts,     \* MySQL: the application and read-only accounts [exists, pass, privs]
  request,      \* db-init: the event of the current invocation
  response,     \* db-init: the PhysicalResourceId returned
  read,         \* db-init: master, appuser, readonly as read by this invocation
  bpc,          \* db-init: position ("idle", "connect", "query", "returned", "threw")
  tries,        \* connectWithRetry: createConnection calls made by this invocation
  pos,          \* db-init: number of conn.query calls made by this invocation
  lastRun,      \* secrets and accounts at the end of the previous completed Create/Update
  rotations     \* number of secret rotations so far

dbVars == <<dbEnv, secretStore, adminPass, accounts, request, response, read, bpc, tries, pos,
            lastRun, rotations>>

VARIABLES
  ecrEvent,    \* image guard: the event of the invocation
  ecrImages,   \* ECR: image tag -> the details of the image it names
  ecrOutcome   \* image guard: what the invocation returned or threw

ecrVars == <<ecrEvent, ecrImages, ecrOutcome>>

VARIABLES
  contextEnv,  \* bin/app.ts: the env context value
  processEnv,  \* bin/app.ts: process.env.ENV
  envName,     \* bin/app.ts: environment
  config,      \* bin/app.ts: config
  configured   \* bin/app.ts: config has been computed

cfgVars == <<contextEnv, processEnv, envName, config, configured>>

VARIABLES
  runs,    \* overlapping db-init runs: position, secrets read, statements sent
  fleet    \* overlapping fleet invocations: action, count, commands not yet applied

overlapVars == <<runs, fleet>>

VARIABLES
  slackSecret,   \* Secrets Manager: the url in the Slack webhook secret
  webhook,       \* slack-notifier: the module-level webhook of the process
  slackEvent,    \* slack-notifier: the event of the last invocation
  slackOutcome   \* slack-notifier: what the last invocation sent, or that it threw

slackVars == <<slackSecret, webhook, slackEvent, slackOutcome>>

VARIABLES
  trigEnv        \* the environment whose triggers invoke the scheduler handlers

trigVars == <<trigEnv>>

vars == <<schedVars, deployVars, logVars, dbVars, ecrVars, cfgVars, overlapVars, slackVars, trigVars>>

\* what the actions of one subsystem leave alone
exceptSched == <<deployVars, logVars, dbVars, ecrVars, cfgVars, overlapVars, slackVars, trigVars>>
exceptDeploy == <<schedVars, logVars, dbVars, ecrVars, cfgVars, overlapVars, slackVars, trigVars>>
exceptLog == <<schedVars, deployVars, dbVars, ecrVars, cfgVars, overlapVars, slackVars, trigVars>>
exceptDb == <<schedVars, deployVars, logVars, ecrVars, cfgVars, overlapVars, slackVars, trigVars>>
exceptCfg == <<schedVars, deployVars, logVars, dbVars, ecrVars, overlapVars, slackVars, trigVars>>
exceptSlack == <<schedVars, deployVars, logVars, dbVars, ecrVars, cfgVars, overlapVars, trigVars>>
exceptEcr == <<schedVars, deployVars, logVars, dbVars, cfgVars, overlapVars, slackVars, trigVars>>

----------------------------------------------------------------------------
(* Bounds                                                                  *)

\* invocation instants range over the UTC days 0..MaxDay counted from 2024-01-01
MaxDay == 13

\* out-of-band writes (console, CLI, scripts) to the parameter store
MaxExtOps == 1

\* log events in the payload of one Firehose record
MaxEvents == 2

\* records in one batch delivered to the log transform
MaxRecords == 2

\* rotations of a credential secret
MaxRotations == 1

\* the longest SNS event of the Slack notifier, in records
MaxAlarms == 2

(* Program constants                                                       *)

maxAttempts == 20
delaySeconds == 15
timeoutSeconds == 120
DESIRED_UP == 1

\* mutant: one attempt too many
max_offByOne == 12 + 1

\* connectWithRetry: const max
max == 12

----------------------------------------------------------------------------
(* Calendar: what new Date(date.toLocaleString('en-US', {timeZone:         *)
(* 'Asia/Tokyo'})) and getFullYear/getMonth/getDate/getDay compute.        *)

\* UTC hours at which an invocation may happen; 15:00 UTC is 00:00 in Tokyo
Hours == {0, 14, 15, 23}

Instants == [day : 0..MaxDay, hour : Hours]

IsLeap(y) == (y % 4 = 0 /\ y % 100 # 0) \/ y % 400 = 0

YearLen(y) == IF IsLeap(y) THEN 366 ELSE 365

MonthLen(y, m) ==
  IF m = 2 THEN (IF IsLeap(y) THEN 29 ELSE 28)
  ELSE IF m \in {4, 6, 9, 11} THEN 30 ELSE 31

RECURSIVE YearOf(_, _)
YearOf(y, n) == IF n < YearLen(y) THEN <<y, n>> ELSE YearOf(y + 1, n - YearLen(y))

RECURSIVE MonthOf(_, _, _)
MonthOf(y, m, n) == IF n < MonthLen(y, m) THEN <<m, n + 1>> ELSE MonthOf(y, m + 1, n - MonthLen(y, m))

\* Asia/Tokyo is UTC+9 all year: the civil day in Tokyo of a UTC instant
JstDay(date) == date.day + ((date.hour + 9) \div 24)

\* the fields of the Date `jst`: full year, month (1..12), day of month, day
\* of week (0 Sun .. 6 Sat); day 0 is Monday 2024-01-01
JstCivil(date) ==
  LET n  == JstDay(date)
      yn == YearOf(2024, n)
      md == MonthOf(yn[1], 1, yn[2])
  IN  [y |-> yn[1], m |-> md[1], d |-> md[2], dow |-> (n + 1) % 7]

\* n.toString().padStart(2, '0') as its two characters
padStart2(n) == <<n \div 10, n % 10>>

holidays == {
    <<2024, <<0, 1>>, <<0, 1>>>>, <<2024, <<0, 1>>, <<0, 8>>>>, <<2024, <<0, 2>>, <<1, 1>>>>,
    <<2024, <<0, 2>>, <<1, 2>>>>, <<2024, <<0, 2>>, <<2, 3>>>>, <<2024, <<0, 3>>, <<2, 0>>>>,
    <<2024, <<0, 4>>, <<2, 9>>>>, <<2024, <<0, 5>>, <<0, 3>>>>, <<2024, <<0, 5>>, <<0, 4>>>>,
    <<2024, <<0, 5>>, <<0, 5>>>>, <<2024, <<0, 5>>, <<0, 6>>>>, <<2024, <<0, 7>>, <<1, 5>>>>,
    <<2024, <<0, 8>>, <<1, 1>>>>, <<2024, <<0, 8>>, <<1, 2>>>>, <<2024, <<0, 9>>, <<1, 6>>>>,
    <<2024, <<0, 9>>, <<2, 2>>>>, <<2024, <<0, 9>>, <<2, 3>>>>, <<2024, <<1, 0>>, <<1, 4>>>>,
    <<2024, <<1, 1>>, <<0, 3>>>>, <<2024, <<1, 1>>, <<0, 4>>>>, <<2024, <<1, 1>>, <<2, 3>>>>,
    <<2025, <<0, 1>>, <<0, 1>>>>, <<2025, <<0, 1>>, <<1, 3>>>>, <<2025, <<0, 2>>, <<1, 1>>>>,
    <<2025, <<0, 2>>, <<2, 3>>>>, <<2025, <<0, 2>>, <<2, 4>>>>, <<2025, <<0, 3>>, <<2, 0>>>>,
    <<2025, <<0, 4>>, <<2, 9>>>>, <<2025, <<0, 5>>, <<0, 3>>>>, <<2025, <<0, 5>>, <<0, 4>>>>,
    <<2025, <<0, 5>>, <<0, 5>>>>, <<2025, <<0, 5>>, <<0, 6>>>>, <<2025, <<0, 7>>, <<2, 1>>>>,
    <<2025, <<0, 8>>, <<1, 1>>>>, <<2025, <<0, 9>>, <<1, 5>>>>, <<2025, <<0, 9>>, <<2, 3>>>>,
    <<2025, <<1, 0>>, <<1, 3>>>>, <<2025, <<1, 1>>, <<0, 3>>>>, <<2025, <<1, 1>>, <<2, 3>>>>,
    <<2025, <<1, 1>>, <<2, 4>>>>, <<2026, <<0, 1>>, <<0, 1>>>>, <<2026, <<0, 1>>, <<1, 2>>>>,
    <<2026, <<0, 2>>, <<1, 1>>>>, <<2026, <<0, 2>>, <<2, 3>>>>, <<2026, <<0, 3>>, <<2, 0>>>>,
    <<2026, <<0, 4>>, <<2, 9>>>>, <<2026, <<0, 5>>, <<0, 3>>>>, <<2026, <<0, 5>>, <<0, 4>>>>,
    <<2026, <<0, 5>>, <<0, 5>>>>, <<2026, <<0, 7>>, <<2, 0>>>>, <<2026, <<0, 8>>, <<1, 1>>>>,
    <<2026, <<0, 9>>, <<2, 1>>>>, <<2026, <<0, 9>>, <<2, 2>>>>, <<2026, <<0, 9>>, <<2, 3>>>>,
    <<2026, <<1, 0>>, <<1, 2>>>>, <<2026, <<1, 1>>, <<0, 3>>>>, <<2026, <<1, 1>>, <<2, 3>>>> }

\* mutant: the weekend test is left to the cron expression
isJapanHolidayJst_noWeekend(date) ==
  LET jst == JstCivil(date)
  IN  <<jst.y, padStart2(jst.m), padStart2(jst.d)>> \in holidays

isJapanHolidayJst(date) ==
  LET jst == JstCivil(date)
      key == <<jst.y, padStart2(jst.m), padStart2(jst.d)>>
  IN  IF jst.dow = 0 \/ jst.dow = 6 THEN TRUE ELSE key \in holidays

----------------------------------------------------------------------------
(* The scheduler handlers and the resources they act on                    *)

Services == {"frontend", "backend", "job"}
DbStates == {"available", "stopped", "starting", "stopping"}
InstStates == {"running", "stopped", "pending", "stopping"}
NoIp == "none"
Ips == {"ip1"}

Call(cmd, target, count) == [cmd |-> cmd, target |-> target, count |-> count]

UpdateService(s, n) == Call("UpdateService", s, n)
StartDBInstance == Call("StartDBInstance", "db", 0)
StopDBInstance == Call("StopDBInstance", "db", 0)
DescribeInstances == Call("DescribeInstances", "bastion", 0)
StartInstances == Call("StartInstances", "bastion", 0)
StopInstances == Call("StopInstances", "bastion", 0)
ChangeResourceRecordSets == Call("ChangeResourceRecordSets", "record", 0)

\* the commands that bring a target up
StartCalls == {StartDBInstance, StartInstances} \cup {UpdateService(s, n) : s \in Services, n \in 1..DESIRED_UP}

\* the commands every stop/down invocation of a function has to send
StopCalls(f) ==
  IF f = "ecs" THEN {UpdateService(s, 0) : s \in Services}
  ELSE IF f = "rds" THEN {StopDBInstance}
  ELSE {StopInstances}

NewInvocation == pc = "idle"

\* an invocation that returns (or throws) at once, having changed nothing
Return(t, a, r, sent, rejected) ==
  /\ now' = t /\ action' = a /\ pc' = "done" /\ ret' = r
  /\ calls' = sent /\ faults' = rejected
  /\ attempt' = 0

(* ecs-business-hours *)

\* await Promise.all([ecs.send(UpdateService ...) x 3]): all three commands are
\* sent; F is the set of services whose command the provider rejects
ecsUpdateAll(t, a, n, F) ==
  /\ Return(t, a, IF F = {} THEN "ok" ELSE "threw",
            {UpdateService(s, n) : s \in Services}, {UpdateService(s, n) : s \in F})
  /\ svc' = [s \in Services |-> IF s \in F THEN svc[s] ELSE n]

ecsUp(t, F) ==
  IF isJapanHolidayJst(t)
  THEN Return(t, "up", "skipped", {}, {}) /\ svc' = svc
  ELSE ecsUpdateAll(t, "up", DESIRED_UP, F)

\* mutant: 'down' made holiday-aware like 'up'
ecsDown_holidayAware(t, F) ==
  IF isJapanHolidayJst(t)
  THEN Return(t, "down", "skipped", {}, {}) /\ svc' = svc
  ELSE ecsUpdateAll(t, "down", 0, F)

ecsDown(t, F) == ecsUpdateAll(t, "down", 0, F)

ecsHandler ==
  /\ fn = "ecs" /\ NewInvocation
  /\ before' = svc
  /\ \E t \in Instants, a \in {"up", "down", "other"}, F \in SUBSET Services :
       CASE a = "up"   -> ecsUp(t, F)
         [] a = "down" -> ecsDown(t, F)
         [] OTHER      -> Return(t, a, "notok", {}, {}) /\ svc' = svc
  /\ UNCHANGED <<fn, inst, db, dnsCfg, dns>>
  /\ UNCHANGED exceptSched

(* rds-business-hours *)

\* await rds.send(cmd): RDS accepts the command only in the state `from`
\* (InvalidDBInstanceState otherwise); a rejection is not caught
rdsSend(t, a, cmd, from, to, transient) ==
  LET rejected == transient \/ db # from
  IN  /\ Return(t, a, IF rejected THEN "threw" ELSE "ok", {cmd}, IF transient THEN {cmd} ELSE {})
      /\ db' = IF rejected THEN db ELSE to

rdsStart(t, transient) ==
  IF isJapanHolidayJst(t)
  THEN Return(t, "start", "skipped", {}, {}) /\ db' = db
  ELSE rdsSend(t, "start", StartDBInstance, "stopped", "starting", transient)

rdsStop(t, transient) == rdsSend(t, "stop", StopDBInstance, "available", "stopping", transient)

rdsHandler ==
  /\ fn = "rds" /\ NewInvocation
  /\ before' = db
  /\ \E t \in Instants, a \in {"start", "stop", "other"}, transient \in BOOLEAN :
       CASE a = "start" -> rdsStart(t, transient)
         [] a = "stop"  -> rdsStop(t, transient)
         [] OTHER       -> Return(t, a, "notok", {}, {}) /\ db' = db
  /\ UNCHANGED <<fn, inst, svc, dnsCfg, dns>>
  /\ UNCHANGED exceptSched

\* the instance finishes starting or stopping
rdsProgress ==
  /\ fn = "rds"
  /\ db \in {"starting", "stopping"}
  /\ db' = IF db = "starting" THEN "available" ELSE "stopped"
  /\ UNCHANGED <<fn, now, action, pc, attempt, calls, faults, ret, inst, svc, before, dnsCfg, dns>>
  /\ UNCHANGED exceptSched

(* ec2-business-hours *)

\* action 'start' up to the polling loop. F: the commands the provider rejects
\* transiently; StartInstances is also rejected while the instance is stopping
ec2Start(t, F) ==
  LET isHoliday == isJapanHolidayJst(t)
      state0    == inst.state
      isRunning == state0 = "running"
      isPending == state0 = "pending"
      skipStartDueToHoliday == isHoliday /\ ~isRunning /\ ~isPending
      doStart   == ~skipStartDueToHoliday /\ ~isRunning /\ ~isPending
      started   == doStart /\ StartInstances \notin F /\ state0 = "stopped"
      sent      == {DescribeInstances} \cup (IF doStart THEN {StartInstances} ELSE {})
      skipped   == skipStartDueToHoliday /\ ~isRunning /\ ~isPending
  IN  IF DescribeInstances \in F
      THEN Return(t, "start", "threw", {DescribeInstances}, {DescribeInstances}) /\ inst' = inst
      ELSE /\ inst' = IF started THEN [inst EXCEPT !.state = "pending"] ELSE inst
           /\ IF dnsCfg /\ ~skipped
              THEN /\ now' = t /\ action' = "start" /\ pc' = "poll" /\ ret' = "none"
                   /\ calls' = sent /\ faults' = F \cap sent /\ attempt' = 0
              ELSE Return(t, "start", IF skipped THEN "skipped" ELSE "ok", sent, F \cap sent)

\* mutant: the stop branch made holiday-aware
ec2Stop_holidayAware(t, F) ==
  IF isJapanHolidayJst(t)
  THEN Return(t, "stop", "skipped", {}, {}) /\ inst' = inst
  ELSE /\ Return(t, "stop", "ok", {StopInstances}, F \cap {StopInstances})
       /\ inst' = IF StopInstances \notin F /\ inst.state \in {"running", "pending"}
                  THEN [inst EXCEPT !.state = "stopping"] ELSE inst

\* action 'stop': StopInstances in try/catch; EC2 accepts it for a stopped instance
ec2Stop(t, F) ==
  /\ Return(t, "stop", "ok", {StopInstances}, F \cap {StopInstances})
  /\ inst' = IF StopInstances \notin F /\ inst.state \in {"running", "pending"}
             THEN [inst EXCEPT !.state = "stopping"] ELSE inst

ec2Handler ==
  /\ fn = "ec2" /\ NewInvocation
  /\ before' = inst.state
  /\ \E t \in Instants, a \in {"start", "stop", "other"},
        F \in SUBSET {DescribeInstances, StartInstances, StopInstances} :
       CASE a = "start" -> ec2Start(t, F)
         [] a = "stop"  -> ec2Stop(t, F)
         [] OTHER       -> Return(t, a, "notok", {}, {}) /\ inst' = inst
  /\ UNCHANGED <<fn, db, svc, dnsCfg, dns>>
  /\ UNCHANGED exceptSched

\* one iteration of the polling loop (after the 15 s delay when i > 0). The
\* function is configured with a timeout of two minutes: an invocation that has
\* waited that long is ended by the runtime with a timeout error
ec2Poll ==
  /\ fn = "ec2" /\ pc = "poll"
  /\ \E F \in SUBSET {DescribeInstances, ChangeResourceRecordSets} :
       LET ip == inst.ip
       IN  IF delaySeconds * attempt >= timeoutSeconds
           THEN /\ pc' = "done" /\ ret' = "timeout" /\ attempt' = attempt
                /\ calls' = calls /\ faults' = faults /\ dns' = dns
           ELSE IF DescribeInstances \in F
           THEN /\ pc' = "done" /\ ret' = "threw" /\ attempt' = attempt
                /\ calls' = calls \cup {DescribeInstances}
                /\ faults' = faults \cup {DescribeInstances}
                /\ dns' = dns
           ELSE IF ip # NoIp
           THEN /\ pc' = "done" /\ attempt' = attempt
                /\ calls' = calls \cup {DescribeInstances, ChangeResourceRecordSets}
                /\ faults' = faults \cup (F \cap {ChangeResourceRecordSets})
                /\ ret' = IF ChangeResourceRecordSets \in F THEN "threw" ELSE "ok"
                /\ dns' = IF ChangeResourceRecordSets \in F THEN dns ELSE ip
           ELSE /\ calls' = calls \cup {DescribeInstances}
                /\ faults' = faults /\ dns' = dns
                /\ IF attempt + 1 < maxAttempts
                   THEN pc' = "poll" /\ attempt' = attempt + 1 /\ ret' = ret
                   ELSE pc' = "done" /\ attempt' = attempt + 1 /\ ret' = "ok"
  /\ UNCHANGED <<fn, now, action, inst, db, svc, before, dnsCfg>>
  /\ UNCHANGED exceptSched

\* the instance finishes starting or stopping, or its public address changes
ec2Progress ==
  /\ fn = "ec2"
  /\ \/ /\ inst.state = "pending"
        /\ \E ip \in Ips \cup {inst.ip} : inst' = [state |-> "running", ip |-> ip]
     \/ /\ inst.state = "stopping"
        /\ \E ip \in {NoIp, inst.ip} : inst' = [state |-> "stopped", ip |-> ip]
  /\ UNCHANGED <<fn, now, action, pc, attempt, calls, faults, ret, db, svc, before, dnsCfg, dns>>
  /\ UNCHANGED exceptSched

\* the invocation's result has been delivered: its locals are gone and the
\* function waits for the next event
invocationEnds ==
  /\ fn \in {"ecs", "rds", "ec2"} /\ pc = "done"
  /\ now' = [day |-> 0, hour |-> 0]
  /\ action' = "none" /\ pc' = "idle" /\ attempt' = 0
  /\ calls' = {} /\ faults' = {} /\ ret' = "none" /\ before' = "none"
  /\ UNCHANGED <<fn, inst, db, svc, dnsCfg, dns>>
  /\ UNCHANGED exceptSched

SchedInit ==
  /\ fn \in {"ecs", "rds", "ec2"}
  /\ now = [day |-> 0, hour |-> 0]
  /\ action = "none" /\ pc = "idle" /\ attempt = 0
  /\ calls = {} /\ faults = {} /\ ret = "none" /\ before = "none"
  /\ inst \in [state : InstStates, ip : Ips \cup {NoIp}]
  /\ db \in DbStates
  /\ svc \in [Services -> 0..DESIRED_UP]
  /\ dnsCfg \in BOOLEAN
  /\ dns = NoIp
  /\ fn # "ec2" => inst = [state |-> "stopped", ip |-> NoIp] /\ dnsCfg = FALSE
  /\ fn # "rds" => db = "stopped"
  /\ fn # "ecs" => svc = [s \in Services |-> 0]

SchedIdle ==
  /\ fn = "none" /\ now = [day |-> 0, hour |-> 0]
  /\ action = "none" /\ pc = "idle" /\ attempt = 0
  /\ calls = {} /\ faults = {} /\ ret = "none" /\ before = "none"
  /\ inst = [state |-> "stopped", ip |-> NoIp] /\ db = "stopped"
  /\ svc = [s \in Services |-> 0] /\ dnsCfg = FALSE /\ dns = NoIp

----------------------------------------------------------------------------
(* The Parameter Bridge and the deployment of the stacks of one environment *)

Absent == "absent"
Values == {"v1", "v2"}
Projects == {"sample-app", "other-app"}
Environments == {"dev", "staging", "prod"}

\* `/${project}/${environment}/${category}/${name}`
ParameterPath(p, e, category, name) == <<p, e, category, name>>

rdsSecurityGroupIdParameterName(p, e) == ParameterPath(p, e, "rds", "security-group-id")
rdsEndpointAddressParameterName(p, e) == ParameterPath(p, e, "rds", "endpoint-address")
rdsEndpointPortParameterName(p, e) == ParameterPath(p, e, "rds", "endpoint-port")
ecsClusterNameParameterName(p, e) == ParameterPath(p, e, "ecs", "cluster-name")
ecsBackendServiceNameParameterName(p, e) == ParameterPath(p, e, "ecs", "backend-service-name")
ecsFrontendServiceNameParameterName(p, e) == ParameterPath(p, e, "ecs", "frontend-service-name")
ecsJobServiceNameParameterName(p, e) == ParameterPath(p, e, "ecs", "job-service-name")
albFullNameParameterName(p, e) == ParameterPath(p, e, "alb", "load-balancer-full-name")
rdsInstanceIdentifierParameterName(p, e) == ParameterPath(p, e, "rds", "instance-identifier")
bastionSecurityGroupIdParameterName(p, e) == ParameterPath(p, e, "bastion", "security-group-id")

\* EcsStack reads these under the literal prefix /sample-app
webauthnParameterNames(e) ==
  {ParameterPath("sample-app", e, "webauthn", n) : n \in {"rp-id", "origin", "strict-verify"}}

\* bin/app.ts
shouldDeployBastion(e) == e = "dev" \/ e = "prod"
enableBastionIntegration(e) == shouldDeployBastion(e)

Stacks == {"vpc", "bastion", "rds", "ecs", "alarms"}

\* the stacks the app instantiates
AppStacks ==
  {"vpc", "rds", "ecs"}
    \cup (IF shouldDeployBastion(environment) THEN {"bastion"} ELSE {})
    \cup (IF alarmsEnabled THEN {"alarms"} ELSE {})

\* the keys a stack publishes
Publishes(s, p, e) ==
  CASE s = "bastion" -> {bastionSecurityGroupIdParameterName(p, e)}
    [] s = "rds"     -> {rdsSecurityGroupIdParameterName(p, e), rdsEndpointAddressParameterName(p, e),
                         rdsEndpointPortParameterName(p, e), rdsInstanceIdentifierParameterName(p, e)}
    [] s = "ecs"     -> {ecsClusterNameParameterName(p, e), ecsBackendServiceNameParameterName(p, e),
                         ecsJobServiceNameParameterName(p, e), ecsFrontendServiceNameParameterName(p, e),
                         albFullNameParameterName(p, e)}
    [] OTHER         -> {}

\* the Parameter Bridge keys a stack resolves when it is deployed
BridgeResolves(s, p, e) ==
  CASE s = "rds"    -> IF enableBastionIntegration(e) THEN {bastionSecurityGroupIdParameterName(p, e)} ELSE {}
    [] s = "ecs"    -> {rdsEndpointAddressParameterName(p, e), rdsEndpointPortParameterName(p, e)}
    [] s = "alarms" -> {ecsClusterNameParameterName(p, e), ecsBackendServiceNameParameterName(p, e),
                        ecsFrontendServiceNameParameterName(p, e), ecsJobServiceNameParameterName(p, e),
                        albFullNameParameterName(p, e), rdsInstanceIdentifierParameterName(p, e)}
    [] OTHER        -> {}

\* mutant: EcsStack does not read the WebAuthn parameters
Resolves_bridgeOnly(s, p, e) == BridgeResolves(s, p, e)

\* every parameter a stack's template reads as AWS::SSM::Parameter::Value<String>
Resolves(s, p, e) ==
  BridgeResolves(s, p, e) \cup (IF s = "ecs" THEN webauthnParameterNames(e) ELSE {})

Keys(p, e) ==
  UNION {Publishes(s, p, e) : s \in Stacks} \cup webauthnParameterNames(e)

\* the stacks a stack is deployed after: the stacks it takes constructs from
\* and the addDependency calls of bin/app.ts. EcsStack takes dbSecret and
\* appUserSecret from RdsStack; they carry a reference to it only while RdsStack
\* declares them (and not when it imported them by ARN).
Deps(s) ==
  CASE s = "bastion" -> {"vpc"}
    [] s = "rds"     -> {"vpc"} \cup (IF shouldDeployBastion(environment) /\ enableBastionIntegration(environment)
                                      THEN {"bastion"} ELSE {})
    [] s = "ecs"     -> {"vpc"} \cup (IF imported THEN {} ELSE {"rds"})
    [] OTHER         -> {}

\* mutant: a lookup that falls back to a default for a missing parameter
Default == ""
resolve_withDefault(k) == IF store[k] = Absent THEN Default ELSE store[k]

\* ssm.StringParameter.valueForStringParameter / fromStringParameterName(..).stringValue:
\* CloudFormation reads the parameter when the stack is deployed
resolve(k) == store[k]

\* whether CloudFormation can resolve every parameter of a stack's template
Resolvable(s) == \A k \in Resolves(s, project, environment) : resolve(k) # Absent

\* AwsCustomResource onCreate/onUpdate: putParameter with Overwrite: true
putParameter(st, ks, v) == [k \in DOMAIN st |-> IF k \in ks THEN v ELSE st[k]]

\* AwsCustomResource onDelete / removal of an AWS::SSM::Parameter
deleteParameter(st, ks) == [k \in DOMAIN st |-> IF k \in ks THEN Absent ELSE st[k]]

CanDeploy(s) ==
  /\ run = "active"
  /\ s \in AppStacks
  /\ s \notin done
  /\ Deps(s) \cap AppStacks \subseteq done

\* bookkeeping of one stack deployment
Deployed(s, v, ok) ==
  /\ done' = done \cup {s}
  /\ lastDeploy' = [stack |-> s, ok |-> ok]
  /\ run' = IF ok THEN run ELSE "failed"
  /\ stk' = IF ok THEN [stk EXCEPT ![s] = v] ELSE stk

\* `cdk deploy`: synthesis runs the lookups, then the stacks are deployed
cdkSynth ==
  /\ run \in {"none", "failed"} \/ (run = "active" /\ done = AppStacks)
  /\ run' = "active" /\ done' = {}
  /\ imported' = secretsExist
  /\ UNCHANGED <<project, environment, alarmsEnabled, store, expect, stk, lastDeploy,
                 secretsExist, rdsOwnsSecrets, extOps>>
  /\ UNCHANGED exceptDeploy

deployVpc ==
  /\ CanDeploy("vpc")
  /\ Deployed("vpc", "v1", TRUE)
  /\ UNCHANGED <<project, environment, alarmsEnabled, store, expect, imported,
                 secretsExist, rdsOwnsSecrets, extOps>>
  /\ UNCHANGED exceptDeploy

\* BastionStack publishes with new ssm.StringParameter: an AWS::SSM::Parameter
\* resource, whose creation fails when the name is already taken
deployBastion ==
  /\ CanDeploy("bastion")
  /\ \E v \in Values :
       LET ks == Publishes("bastion", project, environment)
           create == stk["bastion"] = Absent
           ok == create => \A k \in ks : store[k] = Absent
           changed == stk["bastion"] # v
       IN  /\ Deployed("bastion", v, ok)
           /\ store' = IF ok /\ changed THEN putParameter(store, ks, v) ELSE store
           /\ expect' = IF changed THEN putParameter(expect, ks, v) ELSE expect
  /\ UNCHANGED <<project, environment, alarmsEnabled, imported, secretsExist, rdsOwnsSecrets, extOps>>
  /\ UNCHANGED exceptDeploy

\* RdsStack: resolves the bastion security group, declares or imports the
\* credential secrets, publishes its four keys with upsertSsmParameter
deployRds ==
  /\ CanDeploy("rds")
  /\ \E v \in Values :
       LET ks == Publishes("rds", project, environment)
           ok == Resolvable("rds")
           changed == stk["rds"] # v
       IN  /\ Deployed("rds", v, ok)
           /\ store' = IF ok /\ changed THEN putParameter(store, ks, v) ELSE store
           /\ expect' = IF ok /\ changed THEN putParameter(expect, ks, v) ELSE expect
           /\ rdsOwnsSecrets' = IF ok THEN ~imported ELSE rdsOwnsSecrets
           /\ secretsExist' = IF ~ok THEN secretsExist
                              ELSE IF ~imported THEN TRUE
                              ELSE IF rdsOwnsSecrets THEN FALSE ELSE secretsExist
  /\ UNCHANGED <<project, environment, alarmsEnabled, imported, extOps>>
  /\ UNCHANGED exceptDeploy

\* EcsStack: resolves the RDS endpoint and the WebAuthn parameters, publishes
\* its five keys with upsertSsmParameter
deployEcs ==
  /\ CanDeploy("ecs")
  /\ \E v \in Values :
       LET ks == Publishes("ecs", project, environment)
           ok == Resolvable("ecs")
           changed == stk["ecs"] # v
       IN  /\ Deployed("ecs", v, ok)
           /\ store' = IF ok /\ changed THEN putParameter(store, ks, v) ELSE store
           /\ expect' = IF ok /\ changed THEN putParameter(expect, ks, v) ELSE expect
  /\ UNCHANGED <<project, environment, alarmsEnabled, imported, secretsExist, rdsOwnsSecrets, extOps>>
  /\ UNCHANGED exceptDeploy

\* AlarmsStack: resolves the six identifiers, publishes nothing
deployAlarms ==
  /\ CanDeploy("alarms")
  /\ Deployed("alarms", "v1", Resolvable("alarms"))
  /\ UNCHANGED <<project, environment, alarmsEnabled, store, expect, imported,
                 secretsExist, rdsOwnsSecrets, extOps>>
  /\ UNCHANGED exceptDeploy

\* `cdk destroy` of one stack: its parameters are deleted with it
destroy ==
  /\ run # "active" \/ done = {}
  /\ \E s \in Stacks :
       /\ stk[s] # Absent
       /\ stk' = [stk EXCEPT ![s] = Absent]
       /\ store' = deleteParameter(store, Publishes(s, project, environment))
       /\ expect' = deleteParameter(expect, Publishes(s, project, environment))
       /\ secretsExist' = IF s = "rds" /\ rdsOwnsSecrets THEN FALSE ELSE secretsExist
       /\ rdsOwnsSecrets' = IF s = "rds" THEN FALSE ELSE rdsOwnsSecrets
  /\ UNCHANGED <<project, environment, alarmsEnabled, run, done, lastDeploy, imported, extOps>>
  /\ UNCHANGED exceptDeploy

\* parameters are written or deleted by hand: one Parameter Bridge key
\* (console, CLI), or the three WebAuthn parameters (manage-webauthn-params.sh)
externalWrite ==
  /\ extOps < MaxExtOps
  /\ extOps' = extOps + 1
  /\ \E ks \in {{k} : k \in DOMAIN store \ webauthnParameterNames(environment)}
                 \cup {webauthnParameterNames(environment)},
        v \in {"v1", Absent} :
       /\ \E k \in ks : store[k] # v
       /\ store' = [k \in DOMAIN store |-> IF k \in ks THEN v ELSE store[k]]
       /\ expect' = [k \in DOMAIN expect |-> IF k \in ks THEN v ELSE expect[k]]
  /\ UNCHANGED <<project, environment, alarmsEnabled, stk, run, done, lastDeploy,
                 imported, secretsExist, rdsOwnsSecrets>>
  /\ UNCHANGED exceptDeploy

DeployInit ==
  /\ project \in Projects
  /\ environment \in Environments
  /\ alarmsEnabled \in BOOLEAN
  /\ store = [k \in Keys(project, environment) |-> Absent]
  /\ expect = store
  /\ stk = [s \in Stacks |-> Absent]
  /\ run = "none" /\ done = {}
  /\ lastDeploy = [stack |-> "none", ok |-> TRUE]
  /\ imported = FALSE /\ secretsExist = FALSE /\ rdsOwnsSecrets = FALSE
  /\ extOps = 0

DeployIdle ==
  /\ project = "none" /\ environment = "none" /\ alarmsEnabled = FALSE
  /\ store = <<>> /\ expect = <<>>
  /\ stk = [s \in Stacks |-> Absent]
  /\ run = "none" /\ done = {}
  /\ lastDeploy = [stack |-> "none", ok |-> TRUE]
  /\ imported = FALSE /\ secretsExist = FALSE /\ rdsOwnsSecrets = FALSE
  /\ extOps = 0

----------------------------------------------------------------------------
(* logs-firehose-transform: texts, JSON values and the conversions between *)
(* them. A text is a sequence of tokens; a token is [t, v] with v the       *)
(* sequence of its character chunks.                                       *)

WS == [t |-> "ws", v |-> <<" ">>]
NL == [t |-> "nl", v |-> <<"\n">>]
P(c) == [t |-> "punct", v |-> <<c>>]
Num(d) == [t |-> "num", v |-> <<d>>]
Str(chunks) == [t |-> "str", v |-> chunks]
Lit(w) == [t |-> "lit", v |-> <<w>>]
Word(w) == [t |-> "word", v |-> <<w>>]

\* String.prototype.trim
RECURSIVE trimStart(_)
trimStart(text) ==
  IF text # <<>> /\ Head(text).t \in {"ws", "nl"} THEN trimStart(Tail(text)) ELSE text

RECURSIVE trimEnd(_)
trimEnd(text) ==
  IF text # <<>> /\ text[Len(text)].t \in {"ws", "nl"}
  THEN trimEnd(SubSeq(text, 1, Len(text) - 1)) ELSE text

trim(text) == trimEnd(trimStart(text))

\* a JavaScript value: a scalar (one token), or an object or array with its
\* own enumerable properties in insertion order
Scalar(tok) == [kind |-> "scalar", tok |-> <<tok>>, members |-> <<>>]
Object(members) == [kind |-> "object", tok |-> <<>>, members |-> members]
Array(members) == [kind |-> "array", tok |-> <<>>, members |-> members]
Undefined == [kind |-> "undefined", tok |-> <<>>, members |-> <<>>]

\* obj[k] = v: an existing property keeps its position
setProp(members, k, v) ==
  IF \E i \in 1..Len(members) : members[i].k = k
  THEN [i \in 1..Len(members) |-> IF members[i].k = k THEN [k |-> k, v |-> v] ELSE members[i]]
  ELSE Append(members, [k |-> k, v |-> v])

DigitStr == <<"0", "1", "2", "3", "4", "5", "6", "7", "8", "9">>

\* the decimal digits of n, padded with zeros to at least w characters
RECURSIVE Dec(_, _)
Dec(n, w) ==
  IF n < 10 /\ w <= 1 THEN <<DigitStr[n + 1]>>
  ELSE Append(Dec(n \div 10, w - 1), DigitStr[(n % 10) + 1])

IsJsonScalar(tok) == tok.t \in {"num", "str", "lit"}

\* the members between the braces: key : scalar, separated by commas
MembersOk(ts) ==
  \/ ts = <<>>
  \/ /\ Len(ts) % 4 = 3
     /\ \A i \in 1..Len(ts) :
          CASE i % 4 = 1 -> ts[i].t = "str"
            [] i % 4 = 2 -> ts[i] = P(":")
            [] i % 4 = 3 -> IsJsonScalar(ts[i])
            [] OTHER     -> ts[i] = P(",")

RECURSIVE MembersOf(_, _)
MembersOf(ts, acc) ==
  IF Len(ts) < 3 THEN acc
  ELSE MembersOf(SubSeq(ts, 5, Len(ts)), setProp(acc, ts[1].v, ts[3]))

\* the elements between the brackets: scalars separated by commas
ElementsOk(ts) ==
  \/ ts = <<>>
  \/ /\ Len(ts) % 2 = 1
     /\ \A i \in 1..Len(ts) : IF i % 2 = 1 THEN IsJsonScalar(ts[i]) ELSE ts[i] = P(",")

ElementsOf(ts) ==
  [i \in 1..((Len(ts) + 1) \div 2) |-> [k |-> Dec(i - 1, 1), v |-> ts[2 * i - 1]]]

\* JSON.parse of a text: [ok, value], ok = FALSE for a SyntaxError
JSONparse(text) ==
  LET ts == SelectSeq(text, LAMBDA tok : tok.t \notin {"ws", "nl"})
      n == Len(ts)
      inner == SubSeq(ts, 2, n - 1)
  IN  IF n = 1 /\ IsJsonScalar(ts[1]) THEN [ok |-> TRUE, value |-> Scalar(ts[1])]
      ELSE IF n >= 2 /\ ts[1] = P("{") /\ ts[n] = P("}") /\ MembersOk(inner)
        THEN [ok |-> TRUE, value |-> Object(MembersOf(inner, <<>>))]
      ELSE IF n >= 2 /\ ts[1] = P("[") /\ ts[n] = P("]") /\ ElementsOk(inner)
        THEN [ok |-> TRUE, value |-> Array(ElementsOf(inner))]
      ELSE [ok |-> FALSE, value |-> Undefined]

\* !value
Falsy(value) ==
  \/ value.kind = "undefined"
  \/ /\ value.kind = "scalar"
     /\ value.tok[1] \in {Lit("null"), Lit("false"), Num("0"), Str(<<>>)}

\* typeof value
typeof(value) ==
  CASE value.kind = "undefined" -> "undefined"
    [] value.kind = "scalar" /\ value.tok[1].t = "num" -> "number"
    [] value.kind = "scalar" /\ value.tok[1].t = "str" -> "string"
    [] value.kind = "scalar" /\ value.tok[1] \in {Lit("true"), Lit("false")} -> "boolean"
    [] OTHER -> "object"

RECURSIVE JoinMembers(_)
JoinMembers(members) ==
  IF members = <<>> THEN <<>>
  ELSE <<Str(Head(members).k), P(":"), Head(members).v>>
         \o (IF Len(members) > 1 THEN <<P(",")>> ELSE <<>>)
         \o JoinMembers(Tail(members))

\* JSON.stringify of an object
JSONstringify(members) == <<P("{")>> \o JoinMembers(members) \o <<P("}")>>

\* Date: time values are counted in days (86 400 000 ms) since 1970-01-01;
\* a Date holds a time value only within +-8.64e15 ms
MaxTimeValue == 100000000

ValidDate(timestamp) == timestamp >= 0 - MaxTimeValue /\ timestamp <= MaxTimeValue

\* Date.prototype.toISOString of a valid Date (it throws a RangeError otherwise)
toISOString(timestamp) ==
  LET yn == YearOf(1970, timestamp)
      md == MonthOf(yn[1], 1, yn[2])
  IN  Dec(yn[1], 4) \o <<"-">> \o Dec(md[1], 2) \o <<"-">> \o Dec(md[2], 2) \o <<"T00:00:00.000Z">>

(* logs-firehose-transform: the records of a batch                          *)

LogGroups == {"/ecs/backend"}
LogStreams == {"backend/1"}
MessageTypes == {"DATA_MESSAGE", "CONTROL_MESSAGE", "TEST_MESSAGE"}

\* epoch days: 2024-01-01, 2024-02-29, and one beyond the range of Date
Timestamps == {19723, 19782, MaxTimeValue + 1}

\* logEvent.message
Messages == {
  <<>>,
  <<WS, WS>>,
  <<Word("started")>>,
  <<P("{"), Str(<<"a">>), P(":")>>,
  <<Num("1")>>,
  <<Str(<<"s">>)>>,
  <<Lit("true")>>,
  <<Lit("null")>>,
  <<P("["), Num("1"), P("]")>>,
  <<WS, P("{"), Str(<<"a">>), P(":"), Num("1"), P("}"), NL>>,
  <<P("{"), Str(<<"log_group">>), P(":"), Str(<<"x">>), P(","), Str(<<"b">>), P(":"), Lit("true"), P("}")>>
}

LogEvents == [timestamp : Timestamps, message : Messages]

RECURSIVE SeqsUpTo(_, _)
SeqsUpTo(S, n) ==
  IF n = 0 THEN {<<>>}
  ELSE LET shorter == SeqsUpTo(S, n - 1)
       IN  shorter \cup {Append(s, x) : s \in {t \in shorter : Len(t) = n - 1}, x \in S}

\* the CloudWatch Logs payload of a record (CloudWatchLogsFirehosePayload)
Payloads ==
  [kind : {"object"}, messageType : MessageTypes, logGroup : LogGroups, logStream : LogStreams,
   logEvents : [defined : {TRUE}, items : SeqsUpTo(LogEvents, MaxEvents)]]

NoPayload(kind) ==
  [kind |-> kind, messageType |-> "undefined", logGroup |-> "undefined", logStream |-> "undefined",
   logEvents |-> [defined |-> FALSE, items |-> <<>>]]

\* other things a record may carry: JSON that is no payload, a payload
\* without logEvents, text that is no JSON
OtherTexts ==
  {[json |-> TRUE, value |-> NoPayload(k)] : k \in {"null", "number"}}
    \cup {[json |-> TRUE, value |-> [NoPayload("object") EXCEPT !.messageType = "DATA_MESSAGE"]]}
    \cup {[json |-> FALSE, value |-> NoPayload("undefined")]}

\* record.data: base64 of gzip of the payload's JSON text, or of other bytes
gzipSync(text) == [gzip |-> TRUE, text |-> text]
NotGzip == [gzip |-> FALSE, text |-> [json |-> FALSE, value |-> NoPayload("undefined")]]
toBase64(bytes) == [base64 |-> bytes]

RecordData ==
  {toBase64(gzipSync([json |-> TRUE, value |-> p])) : p \in Payloads}
    \cup {toBase64(gzipSync(t)) : t \in OtherTexts}
    \cup {toBase64(NotGzip)}

RecordIds == {"r1"}

FirehoseTransformationEventRecords == [recordId : RecordIds, data : RecordData]

(* logs-firehose-transform: processRecord and the handler                   *)

\* Buffer.from(record.data, 'base64'): never throws
fromBase64(data) == data.base64

\* `${values.map((value) => JSON.stringify(value)).join('\n')}\n`
RECURSIVE joinLines(_)
joinLines(values) ==
  IF values = <<>> THEN <<>>
  ELSE JSONstringify(Head(values))
         \o (IF Len(values) > 1 THEN <<NL>> ELSE <<>>)
         \o joinLines(Tail(values))

encodeRecords(values) == toBase64(joinLines(values) \o <<NL>>)

\* mutant: the error record is returned without the record's data
buildErrorRecord_noData(record, result) ==
  [recordId |-> record.recordId, result |-> result, data |-> toBase64(<<>>)]

buildErrorRecord(record, result) ==
  [recordId |-> record.recordId, result |-> result, data |-> record.data]

\* { ...structured }: the own enumerable properties of an object or array
spread(structured) == structured.members

\* mutant: the spread comes last, so the fields of the log line win
enrich_spreadLast(structured, parsed, logEvent) ==
  LET derived == <<[k |-> <<"log_group">>, v |-> Str(<<parsed.logGroup>>)],
                   [k |-> <<"log_stream">>, v |-> Str(<<parsed.logStream>>)],
                   [k |-> <<"ingestion_time_iso">>, v |-> Str(toISOString(logEvent.timestamp))]>>
      RECURSIVE assign(_, _)
      assign(target, src) ==
        IF src = <<>> THEN target
        ELSE assign(setProp(target, Head(src).k, Head(src).v), Tail(src))
  IN  assign(derived, spread(structured))

\* { ...structured, log_group, log_stream, ingestion_time_iso }
enrich(structured, parsed, logEvent) ==
  setProp(setProp(setProp(spread(structured),
      <<"log_group">>, Str(<<parsed.logGroup>>)),
      <<"log_stream">>, Str(<<parsed.logStream>>)),
      <<"ingestion_time_iso">>, Str(toISOString(logEvent.timestamp)))

\* mutant: the enriched object is put at the front of the array
push_unshift(array, value) == <<value>> \o array

\* enrichedMessages.push(enriched)
push(array, value) == Append(array, value)

\* the loop over parsed.logEvents: [threw, enrichedMessages]
RECURSIVE forLogEvents(_, _, _)
forLogEvents(parsed, logEvents, enrichedMessages) ==
  IF logEvents = <<>> THEN [threw |-> FALSE, enrichedMessages |-> enrichedMessages]
  ELSE
    LET logEvent == Head(logEvents)
        rawMessage == trim(logEvent.message)
        json == JSONparse(rawMessage)
        structured == json.value
    IN  IF rawMessage = <<>> THEN forLogEvents(parsed, Tail(logEvents), enrichedMessages)
        ELSE IF ~json.ok THEN forLogEvents(parsed, Tail(logEvents), enrichedMessages)
        ELSE IF Falsy(structured) \/ typeof(structured) # "object"
          THEN forLogEvents(parsed, Tail(logEvents), enrichedMessages)
        ELSE IF ~ValidDate(logEvent.timestamp)
          THEN [threw |-> TRUE, enrichedMessages |-> enrichedMessages]
        ELSE forLogEvents(parsed, Tail(logEvents),
                          push(enrichedMessages, enrich(structured, parsed, logEvent)))

processRecord(record) ==
  LET payload == fromBase64(record.data)
      decompressed == payload.text
      parsed == decompressed.value
      loop == forLogEvents(parsed, parsed.logEvents.items, <<>>)
  IN  IF ~payload.gzip THEN <<buildErrorRecord(record, "ProcessingFailed")>>
      ELSE IF ~decompressed.json THEN <<buildErrorRecord(record, "ProcessingFailed")>>
      ELSE IF parsed.kind = "null" THEN <<buildErrorRecord(record, "ProcessingFailed")>>
      ELSE IF parsed.messageType # "DATA_MESSAGE" THEN <<buildErrorRecord(record, "Dropped")>>
      ELSE IF loop.threw THEN <<buildErrorRecord(record, "ProcessingFailed")>>
      ELSE IF Len(loop.enrichedMessages) = 0 THEN <<buildErrorRecord(record, "Dropped")>>
      ELSE <<[recordId |-> record.recordId, result |-> "Ok",
              data |-> encodeRecords(loop.enrichedMessages)]>>

\* mutant: the results of a record are put in front of the earlier ones
pushAll_unshift(array, values) == values \o array

\* transformed.push(...values)
pushAll(array, values) == array \o values

\* one turn of `for (const record of event.records)`
handlerNextRecord ==
  /\ ~returned
  /\ idx <= Len(event.records)
  /\ transformed' = pushAll(transformed, processRecord(event.records[idx]))
  /\ idx' = idx + 1
  /\ UNCHANGED <<event, returned>>
  /\ UNCHANGED exceptLog

\* return { records: transformed }
handlerReturns ==
  /\ ~returned
  /\ idx > Len(event.records)
  /\ returned' = TRUE
  /\ UNCHANGED <<event, idx, transformed>>
  /\ UNCHANGED exceptLog

LogInit ==
  /\ event \in {[records |-> <<r>>] : r \in FirehoseTransformationEventRecords}
  /\ idx = 1
  /\ transformed = <<>>
  /\ returned = FALSE

\* batches of up to MaxRecords records with the record ids Firehose gives
\* them, each of at most one log event
BatchIds == <<"r1", "r2", "r3", "r4">>

BatchEvents ==
  [timestamp : {19723, MaxTimeValue + 1},
   message : {<<Word("started")>>, <<P("{"), Str(<<"a">>), P(":"), Num("1"), P("}")>>}]

BatchData ==
  {toBase64(gzipSync([json |-> TRUE, value |-> p])) :
     p \in [kind : {"object"}, messageType : MessageTypes, logGroup : LogGroups,
            logStream : LogStreams,
            logEvents : [defined : {TRUE}, items : SeqsUpTo(BatchEvents, 1)]]}
    \cup {toBase64(gzipSync(t)) : t \in OtherTexts}
    \cup {toBase64(NotGzip)}

Batches ==
  {[j \in 1..Len(ds) |-> [recordId |-> BatchIds[j], data |-> ds[j]]] :
     ds \in SeqsUpTo(BatchData, MaxRecords)}

BatchInit ==
  /\ event \in {[records |-> b] : b \in Batches}
  /\ idx = 1
  /\ transformed = <<>>
  /\ returned = FALSE

LogIdle ==
  /\ event = [records |-> <<>>]
  /\ idx = 1
  /\ transformed = <<>>
  /\ returned = TRUE

----------------------------------------------------------------------------
(* db-init: the DB bootstrap custom resource and the database it provisions *)

Roles == {"master", "appuser", "readonly"}
Passwords == {"p1", "p2"}
Privileges == {"SELECT", "INSERT", "DELETE", "DROP"}
NoAccount == [exists |-> FALSE, pass |-> "none", privs |-> {}]

RequestTypes == {"Create", "Update", "Delete"}
NoId == <<>>
PhysicalResourceIds == {NoId, <<"physical-id-1">>}

\* process.env: DB_HOST and DB_NAME, "" when unset (the other variables are
\* set whenever these are)
Envs == [DB_HOST : {"", "db.internal"}, DB_NAME : {"", "appdb"}]

\* `${DB_HOST}:${DB_NAME}`
HostAndName(env) == <<env.DB_HOST, ":", env.DB_NAME>>

\* mutant: the identity is always derived from the environment
deleteResponse_derivedOnly(req, env) ==
  IF env.DB_HOST # "" /\ env.DB_NAME # "" THEN HostAndName(env) ELSE <<"db-init">>

\* the PhysicalResourceId returned for a Delete request
deleteResponse(req, env) ==
  LET existingId == req.PhysicalResourceId
      fallbackId == IF env.DB_HOST # "" /\ env.DB_NAME # "" THEN HostAndName(env) ELSE <<"db-init">>
  IN  IF existingId # NoId THEN existingId ELSE fallbackId

Stmt(kind, user, pass, privs) == [kind |-> kind, user |-> user, pass |-> pass, privs |-> privs]

\* mutant: the password of an existing account is left alone
ensureUser_noAlter(user, pass, isApp) ==
  <<Stmt("CREATE USER IF NOT EXISTS", user, pass, {})>>
    \o (IF isApp THEN <<Stmt("GRANT", user, "none", Privileges), Stmt("REVOKE", user, "none", {"DROP"})>>
        ELSE <<Stmt("GRANT", user, "none", {"SELECT"})>>)
    \o <<Stmt("FLUSH PRIVILEGES", "none", "none", {})>>

\* mutant: DROP is not revoked from the application account
ensureUser_noRevoke(user, pass, isApp) ==
  <<Stmt("CREATE USER IF NOT EXISTS", user, pass, {}), Stmt("ALTER USER", user, pass, {})>>
    \o (IF isApp THEN <<Stmt("GRANT", user, "none", Privileges)>>
        ELSE <<Stmt("GRANT", user, "none", {"SELECT"})>>)
    \o <<Stmt("FLUSH PRIVILEGES", "none", "none", {})>>

\* mutant: the account is dropped and created anew
ensureUser_recreate(user, pass, isApp) ==
  <<Stmt("DROP USER IF EXISTS", user, "none", {}), Stmt("CREATE USER IF NOT EXISTS", user, pass, {})>>
    \o (IF isApp THEN <<Stmt("GRANT", user, "none", Privileges), Stmt("REVOKE", user, "none", {"DROP"})>>
        ELSE <<Stmt("GRANT", user, "none", {"SELECT"})>>)
    \o <<Stmt("FLUSH PRIVILEGES", "none", "none", {})>>

\* the statements of ensureUser, in order
ensureUser(user, pass, isApp) ==
  <<Stmt("CREATE USER IF NOT EXISTS", user, pass, {}), Stmt("ALTER USER", user, pass, {})>>
    \o (IF isApp THEN <<Stmt("GRANT", user, "none", Privileges), Stmt("REVOKE", user, "none", {"DROP"})>>
        ELSE <<Stmt("GRANT", user, "none", {"SELECT"})>>)
    \o <<Stmt("FLUSH PRIVILEGES", "none", "none", {})>>

\* the statements of one Create/Update run, given the secrets it read
Statements(secrets) ==
  ensureUser("appuser", secrets.appuser, TRUE) \o ensureUser("readonly", secrets.readonly, FALSE)

\* what MySQL does with one statement
query(accts, st) ==
  CASE st.kind = "CREATE USER IF NOT EXISTS" ->
         IF accts[st.user].exists THEN accts
         ELSE [accts EXCEPT ![st.user] = [exists |-> TRUE, pass |-> st.pass, privs |-> {}]]
    [] st.kind = "ALTER USER" -> [accts EXCEPT ![st.user].pass = st.pass]
    [] st.kind = "GRANT" -> [accts EXCEPT ![st.user].privs = @ \cup st.privs]
    [] st.kind = "REVOKE" -> [accts EXCEPT ![st.user].privs = @ \ st.privs]
    [] st.kind = "DROP USER IF EXISTS" -> [accts EXCEPT ![st.user] = NoAccount]
    [] OTHER -> accts

\* whether MySQL accepts the statement: an account must exist to be altered
\* or granted to
accepts(accts, st) ==
  st.kind \in {"ALTER USER", "GRANT", "REVOKE"} => accts[st.user].exists

\* getSecretJson of the three secrets: nothing is kept between invocations
getSecrets(sm) == [master |-> sm.master, appuser |-> sm.appuser, readonly |-> sm.readonly]

\* mutant: the environment is not checked
envComplete_unchecked(env) == TRUE

\* DB_HOST && DB_PORT && DB_NAME && the three secret ARNs
envComplete(env) == env.DB_HOST # "" /\ env.DB_NAME # ""

NoSecrets == [master |-> "unread", appuser |-> "unread", readonly |-> "unread"]

\* the handler is invoked: a Delete returns at once; a Create/Update checks
\* the environment and reads the three secrets
dbInitInvoke ==
  /\ bpc = "idle"
  /\ \E type \in RequestTypes, id \in PhysicalResourceIds :
       /\ request' = [RequestType |-> type, PhysicalResourceId |-> id]
       /\ IF type = "Delete"
          THEN /\ response' = deleteResponse(request', dbEnv)
               /\ bpc' = "returned"
               /\ UNCHANGED read
          ELSE IF ~envComplete(dbEnv)
          THEN /\ bpc' = "threw"
               /\ UNCHANGED <<response, read>>
          ELSE /\ read' = getSecrets(secretStore)
               /\ bpc' = "connect"
               /\ UNCHANGED response
  /\ UNCHANGED <<dbEnv, secretStore, adminPass, accounts, tries, pos, lastRun, rotations>>
  /\ UNCHANGED exceptDb

\* one turn of the loop of connectWithRetry: a connection attempt succeeds
\* only with the administrator's password, and may fail even then
dbConnect ==
  /\ bpc = "connect"
  /\ tries < max
  /\ tries' = tries + 1
  /\ \E connected \in (IF read.master = adminPass THEN BOOLEAN ELSE {FALSE}) :
       bpc' = IF connected THEN "query"
              ELSE IF tries' < max THEN "connect" ELSE "threw"
  /\ UNCHANGED <<dbEnv, secretStore, adminPass, accounts, request, response, read, pos, lastRun, rotations>>
  /\ UNCHANGED exceptDb

\* the next conn.query of ensureUser; after the last one the connection is
\* ended and the handler returns. A query that fails ends the run.
dbQuery ==
  /\ bpc = "query"
  /\ pos' = pos + 1
  /\ LET st == Statements(read)[pos + 1]
     IN  \E ok \in (IF accepts(accounts, st) THEN BOOLEAN ELSE {FALSE}) :
           IF ok
           THEN /\ accounts' = query(accounts, st)
                /\ IF pos' = Len(Statements(read))
                   THEN /\ bpc' = "returned"
                        /\ response' = HostAndName(dbEnv)
                   ELSE UNCHANGED <<bpc, response>>
           ELSE /\ bpc' = "threw"
                /\ UNCHANGED <<accounts, response>>
  /\ UNCHANGED <<dbEnv, secretStore, adminPass, request, read, tries, lastRun, rotations>>
  /\ UNCHANGED exceptDb

\* the invocation is over: its locals are gone; a completed Create/Update is
\* remembered as the previous run
dbInitEnds ==
  /\ bpc \in {"returned", "threw"}
  /\ bpc' = "idle"
  /\ read' = NoSecrets /\ tries' = 0 /\ pos' = 0 /\ response' = NoId
  /\ request' = [RequestType |-> "none", PhysicalResourceId |-> NoId]
  /\ lastRun' = IF bpc = "returned" /\ request.RequestType # "Delete"
                THEN [valid |-> TRUE, secrets |-> secretStore, accounts |-> accounts]
                ELSE lastRun
  /\ UNCHANGED <<dbEnv, secretStore, adminPass, accounts, rotations>>
  /\ UNCHANGED exceptDb

\* between two invocations a secret gets a new password; the administrator's
\* password in the database follows its secret when the rotation is a managed
\* one
rotateSecret ==
  /\ bpc = "idle"
  /\ rotations < MaxRotations
  /\ rotations' = rotations + 1
  /\ \E role \in Roles, pw \in Passwords :
       /\ pw # secretStore[role]
       /\ secretStore' = [secretStore EXCEPT ![role] = pw]
       /\ IF role = "master" THEN adminPass' \in {adminPass, pw} ELSE adminPass' = adminPass
  /\ UNCHANGED <<dbEnv, accounts, request, response, read, bpc, tries, pos, lastRun>>
  /\ UNCHANGED exceptDb

DbInit ==
  /\ dbEnv \in Envs
  /\ secretStore = [r \in Roles |-> "p1"]
  /\ adminPass = "p1"
  /\ accounts = [r \in {"appuser", "readonly"} |-> NoAccount]
  /\ request = [RequestType |-> "none", PhysicalResourceId |-> NoId]
  /\ response = NoId
  /\ read = NoSecrets
  /\ bpc = "idle" /\ tries = 0 /\ pos = 0
  /\ lastRun = [valid |-> FALSE, secrets |-> [r \in Roles |-> "p1"],
                accounts |-> [r \in {"appuser", "readonly"} |-> NoAccount]]
  /\ rotations = 0

DbIdle ==
  /\ dbEnv = [DB_HOST |-> "", DB_NAME |-> ""]
  /\ secretStore = [r \in Roles |-> "p1"]
  /\ adminPass = "p1"
  /\ accounts = [r \in {"appuser", "readonly"} |-> NoAccount]
  /\ request = [RequestType |-> "none", PhysicalResourceId |-> NoId]
  /\ response = NoId
  /\ read = NoSecrets
  /\ bpc = "idle" /\ tries = 0 /\ pos = 0
  /\ lastRun = [valid |-> FALSE, secrets |-> [r \in Roles |-> "p1"],
                accounts |-> [r \in {"appuser", "readonly"} |-> NoAccount]]
  /\ rotations = 0

----------------------------------------------------------------------------
(* ecr-validate-single-arch: the single-architecture image guard            *)

\* media types, split at the dots
DockerManifest == <<"application/vnd", "docker", "distribution", "manifest", "v2+json">>
DockerManifestList == <<"application/vnd", "docker", "distribution", "manifest", "list", "v2+json">>
OciManifest == <<"application/vnd", "oci", "image", "manifest", "v1+json">>
OciImageIndex == <<"application/vnd", "oci", "image", "index", "v1+json">>
NoMediaType == <<>>

MediaTypes == {DockerManifest, DockerManifestList, OciManifest, OciImageIndex}

\* String.prototype.includes, for a needle of two segments
includes(v, a, b) == \E i \in 1..(Len(v) - 1) : v[i] = a /\ v[i + 1] = b

\* !!v && (v.includes('manifest.list') || v.includes('image.index'))
isIndex(v) == v # NoMediaType /\ (includes(v, "manifest", "list") \/ includes(v, "image", "index"))

ImageTags == {"latest", "v1"}
NoImage == [present |-> FALSE, artifactMediaType |-> NoMediaType, imageManifestMediaType |-> NoMediaType]

ImageDetails ==
  [present : {TRUE}, artifactMediaType : {NoMediaType, OciImageIndex},
   imageManifestMediaType : MediaTypes] \cup {NoImage}

EcrEvents ==
  [RequestType : {"Create", "Update", "Delete"},
   ResourceProperties : [RepositoryName : {"backend"}, ImageTag : ImageTags \cup {""}]]

\* what DescribeImages answers for a tag the repository does not hold: the
\* ImageNotFoundException of the ECR API, or a response without imageDetails
AbsentAnswers == {"ImageNotFoundException", "empty"}

Returned(id) == [kind |-> "returned", id |-> id, repo |-> "", tag |-> "", type |-> NoMediaType]
Threw(message, repo, tag, type) ==
  [kind |-> "threw", id |-> message, repo |-> repo, tag |-> tag, type |-> type]
NotRun == [kind |-> "none", id |-> "", repo |-> "", tag |-> "", type |-> NoMediaType]

\* the handler, given the event, the repository and the provider's way of
\* answering for an absent tag
ecrHandler(ev, images, absentAnswer) ==
  LET repo == ev.ResourceProperties.RepositoryName
      tag == IF ev.ResourceProperties.ImageTag # "" THEN ev.ResourceProperties.ImageTag ELSE "latest"
      details == images[tag]
      artifactType == details.artifactMediaType
      manifestType == details.imageManifestMediaType
  IN  IF ev.RequestType = "Delete" THEN Returned("ecr-validate-single-arch")
      ELSE IF ~details.present /\ absentAnswer = "ImageNotFoundException"
        THEN Threw("ImageNotFoundException", repo, tag, NoMediaType)
      ELSE IF ~details.present
        THEN Threw("ECR tag not found. Push the image before deploy.", repo, tag, NoMediaType)
      ELSE IF isIndex(artifactType) \/ isIndex(manifestType)
        THEN Threw("is a multi-arch Image Index. Please push a single-arch (linux/amd64) image.",
                   repo, tag, IF artifactType # NoMediaType THEN artifactType ELSE manifestType)
      ELSE Returned("ecr-validate-single-arch")

\* one invocation of the guard
ecrValidate ==
  /\ ecrOutcome = NotRun
  /\ \E absentAnswer \in AbsentAnswers :
       ecrOutcome' = ecrHandler(ecrEvent, ecrImages, absentAnswer)
  /\ UNCHANGED <<ecrEvent, ecrImages>>
  /\ UNCHANGED exceptEcr

\* an image is pushed under a tag, and the next deployment invokes the guard
ecrPush ==
  /\ \E tag \in ImageTags, details \in ImageDetails \ {NoImage} :
       ecrImages' = [ecrImages EXCEPT ![tag] = details]
  /\ ecrEvent' \in EcrEvents
  /\ ecrOutcome' = NotRun
  /\ UNCHANGED exceptEcr

EcrInit ==
  /\ ecrEvent \in EcrEvents
  /\ ecrImages = [t \in ImageTags |-> NoImage]
  /\ ecrOutcome = NotRun

EcrIdle ==
  /\ ecrEvent = [RequestType |-> "Delete", ResourceProperties |-> [RepositoryName |-> "backend", ImageTag |-> ""]]
  /\ ecrImages = [t \in ImageTags |-> NoImage]
  /\ ecrOutcome = NotRun

----------------------------------------------------------------------------
(* lib/config: the environment profiles                                     *)

envConfigs ==
  [dev |->
     [ecs |-> [frontend |-> [cpu |-> 256, memoryMiB |-> 512, desiredCount |-> 1],
               backend |-> [cpu |-> 256, memoryMiB |-> 512, desiredCount |-> 1],
               jobs |-> [cpu |-> 256, memoryMiB |-> 512, desiredCount |-> 1],
               min |-> [frontend |-> 0, backend |-> 0, jobs |-> 1],
               max |-> [frontend |-> 2, backend |-> 2, jobs |-> 1],
               healthCheckGraceSeconds |-> [frontend |-> 120, backend |-> 300]],
      rds |-> [instanceClass |-> "t4g.micro", multiAz |-> FALSE, backupRetentionDays |-> 0],
      logsRetentionDays |-> 1],
   staging |->
     [ecs |-> [frontend |-> [cpu |-> 256, memoryMiB |-> 512, desiredCount |-> 1],
               backend |-> [cpu |-> 512, memoryMiB |-> 1024, desiredCount |-> 2],
               jobs |-> [cpu |-> 512, memoryMiB |-> 1024, desiredCount |-> 1],
               min |-> [frontend |-> 1, backend |-> 2, jobs |-> 1],
               max |-> [frontend |-> 3, backend |-> 4, jobs |-> 1],
               healthCheckGraceSeconds |-> [frontend |-> 120, backend |-> 300]],
      rds |-> [instanceClass |-> "t3.small", multiAz |-> TRUE, backupRetentionDays |-> 3],
      logsRetentionDays |-> 14],
   prod |->
     [ecs |-> [frontend |-> [cpu |-> 256, memoryMiB |-> 512, desiredCount |-> 1],
               backend |-> [cpu |-> 512, memoryMiB |-> 1024, desiredCount |-> 2],
               jobs |-> [cpu |-> 512, memoryMiB |-> 1024, desiredCount |-> 1],
               min |-> [frontend |-> 1, backend |-> 2, jobs |-> 1],
               max |-> [frontend |-> 6, backend |-> 10, jobs |-> 1],
               healthCheckGraceSeconds |-> [frontend |-> 120, backend |-> 300]],
      rds |-> [instanceClass |-> "t3.small", multiAz |-> TRUE, backupRetentionDays |-> 7],
      logsRetentionDays |-> 30]]

\* what every object literal inherits from Object.prototype (a selection)
ObjectPrototype ==
  [constructor |-> [builtin |-> "function Object"],
   toString |-> [builtin |-> "function toString"],
   __proto__ |-> [builtin |-> "Object.prototype"]]

NoValue == [builtin |-> "undefined"]

\* obj[key] for an object literal: own properties, then the prototype's
getProperty(own, key) ==
  IF key \in DOMAIN own THEN own[key]
  ELSE IF key \in DOMAIN ObjectPrototype THEN ObjectPrototype[key]
  ELSE NoValue

getEnvConfig(env) ==
  IF getProperty(envConfigs, env) # NoValue THEN getProperty(envConfigs, env)
  ELSE envConfigs.dev

\* names given with -c env=... or in ENV; "" stands for a name not given
EnvNameInputs == {"", "dev", "staging", "prod", "Prod", "qa", "constructor", "toString", "__proto__"}

\* bin/app.ts: environment and config
appConfig ==
  /\ ~configured
  /\ envName' = (IF contextEnv # "" THEN contextEnv ELSE IF processEnv # "" THEN processEnv ELSE "dev")
  /\ config' = getEnvConfig(envName')
  /\ configured' = TRUE
  /\ UNCHANGED <<contextEnv, processEnv>>
  /\ UNCHANGED exceptCfg

CfgInit ==
  /\ contextEnv \in EnvNameInputs
  /\ processEnv \in EnvNameInputs
  /\ envName = ""
  /\ config = NoValue
  /\ configured = FALSE

CfgIdle ==
  /\ contextEnv = ""
  /\ processEnv = ""
  /\ envName = ""
  /\ config = NoValue
  /\ configured = FALSE

----------------------------------------------------------------------------
(* Overlapping invocations: two runs of one handler whose provider calls     *)
(* interleave                                                               *)

RunIds == {1, 2}

NoRun == [pc |-> "none", read |-> NoSecrets, pos |-> 0]
NoSends == [action |-> "none", count |-> 0, pending |-> {}]

(* db-init, Create/Update, with a complete environment and a database that   *)
(* accepts the connection and every statement                                *)

\* what the overlapping runs leave alone
overlapDbFrame ==
  /\ UNCHANGED <<dbEnv, adminPass, request, response, read, bpc, tries, pos, lastRun>>
  /\ UNCHANGED <<fleet, schedVars, deployVars, logVars, ecrVars, cfgVars, slackVars, trigVars>>

\* a run reads the three secrets (lines 24-26)
overlapRead ==
  /\ \E r \in RunIds :
       /\ runs[r].pc = "start"
       /\ runs' = [runs EXCEPT ![r] = [pc |-> "query", read |-> getSecrets(secretStore), pos |-> 0]]
  /\ UNCHANGED <<secretStore, accounts, rotations>>
  /\ overlapDbFrame

\* a run sends its next statement (lines 40-41)
overlapQuery ==
  /\ \E r \in RunIds :
       /\ runs[r].pc = "query"
       /\ LET sts == Statements(runs[r].read)
              st == sts[runs[r].pos + 1]
          IN  /\ accepts(accounts, st)
              /\ accounts' = query(accounts, st)
              /\ runs' = [runs EXCEPT ![r].pos = @ + 1,
                                      ![r].pc = IF runs[r].pos + 1 = Len(sts) THEN "done" ELSE "query"]
  /\ UNCHANGED <<secretStore, rotations>>
  /\ overlapDbFrame

\* the secret of a non-admin account is rotated before the later of the two
\* runs has read the secrets
overlapRotate ==
  /\ \E r \in RunIds : runs[r].pc = "start"
  /\ rotations < MaxRotations
  /\ rotations' = rotations + 1
  /\ \E role \in {"appuser", "readonly"}, pw \in Passwords :
       /\ pw # secretStore[role]
       /\ secretStore' = [secretStore EXCEPT ![role] = pw]
  /\ UNCHANGED <<runs, accounts>>
  /\ overlapDbFrame

\* the state a single run leaves for the given secrets
Converged(secrets) ==
  [appuser |-> [exists |-> TRUE, pass |-> secrets.appuser, privs |-> Privileges \ {"DROP"}],
   readonly |-> [exists |-> TRUE, pass |-> secrets.readonly, privs |-> {"SELECT"}]]

OverlapDbInit ==
  /\ dbEnv = [DB_HOST |-> "db.internal", DB_NAME |-> "appdb"]
  /\ secretStore \in [Roles -> Passwords] /\ secretStore.master = "p1"
  /\ adminPass = "p1"
  /\ accounts \in {[r \in {"appuser", "readonly"} |-> NoAccount], Converged(secretStore)}
  /\ request = [RequestType |-> "none", PhysicalResourceId |-> NoId]
  /\ response = NoId
  /\ read = NoSecrets
  /\ bpc = "idle" /\ tries = 0 /\ pos = 0
  /\ lastRun = [valid |-> FALSE, secrets |-> [r \in Roles |-> "p1"],
                accounts |-> [r \in {"appuser", "readonly"} |-> NoAccount]]
  /\ rotations = 0
  /\ runs = [r \in RunIds |-> [pc |-> "start", read |-> NoSecrets, pos |-> 0]]
  /\ fleet = [r \in RunIds |-> NoSends]

(* ecs-business-hours, on a working day                                      *)

\* what the overlapping invocations leave alone
overlapFleetFrame ==
  /\ UNCHANGED <<fn, now, action, pc, attempt, calls, faults, ret, inst, db, before, dnsCfg, dns>>
  /\ UNCHANGED <<runs, deployVars, logVars, dbVars, ecrVars, cfgVars, slackVars, trigVars>>

\* an invocation begins: Promise.all starts the three sends (lines 23-27, 33-37)
fleetInvoke ==
  /\ \E r \in RunIds, a \in {"up", "down"} :
       /\ fleet[r].action = "none"
       /\ fleet' = [fleet EXCEPT ![r] = [action |-> a,
                                         count |-> IF a = "up" THEN DESIRED_UP ELSE 0,
                                         pending |-> Services]]
  /\ svc' = svc
  /\ overlapFleetFrame

\* the provider applies one of the UpdateService commands of an invocation
fleetSend ==
  /\ \E r \in RunIds : \E s \in fleet[r].pending :
       /\ svc' = [svc EXCEPT ![s] = fleet[r].count]
       /\ fleet' = [fleet EXCEPT ![r].pending = @ \ {s}]
  /\ overlapFleetFrame

OverlapFleetInit ==
  /\ fn = "ecs" /\ now = [day |-> 0, hour |-> 0]
  /\ action = "none" /\ pc = "idle" /\ attempt = 0
  /\ calls = {} /\ faults = {} /\ ret = "none" /\ before = "none"
  /\ inst = [state |-> "stopped", ip |-> NoIp] /\ db = "stopped"
  /\ svc \in [Services -> 0..DESIRED_UP] /\ dnsCfg = FALSE /\ dns = NoIp
  /\ fleet = [r \in RunIds |-> NoSends]
  /\ runs = [r \in RunIds |-> NoRun]

OverlapIdle ==
  /\ runs = [r \in RunIds |-> NoRun]
  /\ fleet = [r \in RunIds |-> NoSends]

----------------------------------------------------------------------------
(* slack-notifier: the process, its cached webhook and the secret           *)

NoUrl == ""
WebhookUrls == {"https://hooks/a", "https://hooks/b"}
NoWebhook == [url |-> NoUrl]

AlarmStates == {"OK", "ALARM", "INSUFFICIENT_DATA"}
SNSEvents == [Records : SeqsUpTo(AlarmStates, MaxAlarms)]

\* getWebhook: the module-level webhook if it is set; otherwise read the
\* secret, fail without a url, and keep the new IncomingWebhook in the module
getWebhook(cached, secretUrl) ==
  IF cached # NoWebhook THEN [threw |-> FALSE, webhook |-> cached]
  ELSE IF secretUrl = NoUrl THEN [threw |-> TRUE, webhook |-> cached]
  ELSE [threw |-> FALSE, webhook |-> [url |-> secretUrl]]

\* webhook.send for one record: where it goes and what it shows
post(hook, NewStateValue) ==
  LET isOk == NewStateValue = "OK"
  IN  [url |-> hook.url, state |-> IF isOk THEN "OK" ELSE "ALARM",
       color |-> IF isOk THEN "good" ELSE "danger"]

RECURSIVE postAll(_, _)
postAll(hook, records) ==
  IF records = <<>> THEN <<>>
  ELSE <<post(hook, Head(records))>> \o postAll(hook, Tail(records))

\* the handler in a process whose module holds `cached`
slackRun(cached, secretUrl, ev) ==
  LET got == getWebhook(cached, secretUrl)
  IN  [threw |-> got.threw,
       posts |-> IF got.threw THEN <<>> ELSE postAll(got.webhook, ev.Records),
       webhook |-> got.webhook]

slackHandler ==
  /\ \E ev \in SNSEvents :
       LET out == slackRun(webhook, slackSecret, ev)
       IN  /\ slackEvent' = ev
           /\ slackOutcome' = [ran |-> TRUE, threw |-> out.threw, posts |-> out.posts]
           /\ webhook' = out.webhook
  /\ UNCHANGED slackSecret
  /\ UNCHANGED exceptSlack

\* the url in the secret is replaced (the webhook is rotated or revoked)
slackSecretChange ==
  /\ slackSecret' \in (WebhookUrls \cup {NoUrl}) \ {slackSecret}
  /\ UNCHANGED <<webhook, slackEvent, slackOutcome>>
  /\ UNCHANGED exceptSlack

\* the execution environment is recycled: the module is loaded anew
slackColdStart ==
  /\ webhook # NoWebhook
  /\ webhook' = NoWebhook
  /\ UNCHANGED <<slackSecret, slackEvent, slackOutcome>>
  /\ UNCHANGED exceptSlack

NoOutcome == [ran |-> FALSE, threw |-> FALSE, posts |-> <<>>]

SlackInit ==
  /\ slackSecret \in WebhookUrls \cup {NoUrl}
  /\ webhook = NoWebhook
  /\ slackEvent = [Records |-> <<>>]
  /\ slackOutcome = NoOutcome

SlackIdle ==
  /\ slackSecret = NoUrl
  /\ webhook = NoWebhook
  /\ slackEvent = [Records |-> <<>>]
  /\ slackOutcome = NoOutcome

----------------------------------------------------------------------------
(* The triggers of the scheduler handlers in one environment                *)

\* mutant: every environment but prod counts as dev
isDev_notProd(e) == e # "prod"

\* const isDev = environment === 'dev'
isDev(e) == e = "dev"

Trigger(kind, f, a) == [kind |-> kind, fn |-> f, action |-> a]

\* the CfnSchedule resources of EcsStack, RdsStack and BastionStack, and the
\* rule on the instance entering 'running' of BastionStack
Triggers(e) ==
  (IF isDev(e)
   THEN {Trigger("schedule", "ecs", "up"), Trigger("schedule", "ecs", "down"),
         Trigger("schedule", "rds", "start"), Trigger("schedule", "rds", "stop")}
   ELSE {})
  \cup (IF shouldDeployBastion(e) /\ isDev(e)
        THEN {Trigger("schedule", "ec2", "start"), Trigger("schedule", "ec2", "stop")}
        ELSE {})
  \cup (IF shouldDeployBastion(e) THEN {Trigger("event", "ec2", "start")} ELSE {})

\* a trigger of the environment fires and invokes its handler
triggerFires ==
  /\ NewInvocation
  /\ \E trig \in Triggers(trigEnv), t \in Instants :
       /\ trig.fn = fn
       /\ CASE fn = "ecs" ->
                 /\ before' = svc
                 /\ \E F \in SUBSET Services :
                      IF trig.action = "up" THEN ecsUp(t, F) ELSE ecsDown(t, F)
                 /\ UNCHANGED <<inst, db>>
            [] fn = "rds" ->
                 /\ before' = db
                 /\ \E transient \in BOOLEAN :
                      IF trig.action = "start" THEN rdsStart(t, transient) ELSE rdsStop(t, transient)
                 /\ UNCHANGED <<inst, svc>>
            [] OTHER ->
                 /\ before' = inst.state
                 /\ \E F \in SUBSET {DescribeInstances, StartInstances, StopInstances} :
                      IF trig.action = "start" THEN ec2Start(t, F) ELSE ec2Stop(t, F)
                 /\ UNCHANGED <<db, svc>>
  /\ UNCHANGED <<fn, dnsCfg, dns>>
  /\ UNCHANGED exceptSched

TriggerInit == trigEnv \in Environments
TriggerIdle == trigEnv = "none"

----------------------------------------------------------------------------
(* Specifications                                                          *)

\* the scheduler functions
Init == SchedInit /\ DeployIdle /\ LogIdle /\ DbIdle /\ EcrIdle /\ CfgIdle /\ OverlapIdle /\ SlackIdle /\ TriggerIdle

Next ==
  \/ ecsHandler
  \/ rdsHandler
  \/ rdsProgress
  \/ ec2Handler
  \/ ec2Poll
  \/ ec2Progress
  \/ invocationEnds

Spec == Init /\ [][Next]_vars

\* the deployments of one environment
InitDeploy == SchedIdle /\ DeployInit /\ LogIdle /\ DbIdle /\ EcrIdle /\ CfgIdle /\ OverlapIdle /\ SlackIdle /\ TriggerIdle

NextDeploy ==
  \/ cdkSynth
  \/ deployVpc
  \/ deployBastion
  \/ deployRds
  \/ deployEcs
  \/ deployAlarms
  \/ destroy
  \/ externalWrite

SpecDeploy == InitDeploy /\ [][NextDeploy]_vars

\* one invocation of the log transform
InitLog == SchedIdle /\ DeployIdle /\ LogInit /\ DbIdle /\ EcrIdle /\ CfgIdle /\ OverlapIdle /\ SlackIdle /\ TriggerIdle

NextLog ==
  \/ handlerNextRecord
  \/ handlerReturns

SpecLog == InitLog /\ [][NextLog]_vars

\* one invocation of the log transform with a batch of several records
InitBatch == SchedIdle /\ DeployIdle /\ BatchInit /\ DbIdle /\ EcrIdle /\ CfgIdle /\ OverlapIdle /\ SlackIdle /\ TriggerIdle

SpecBatch == InitBatch /\ [][NextLog]_vars

\* invocations of the DB bootstrap and rotations of its secrets
InitDb == SchedIdle /\ DeployIdle /\ LogIdle /\ DbInit /\ EcrIdle /\ CfgIdle /\ OverlapIdle /\ SlackIdle /\ TriggerIdle

NextDb ==
  \/ dbInitInvoke
  \/ dbConnect
  \/ dbQuery
  \/ dbInitEnds
  \/ rotateSecret

SpecDb == InitDb /\ [][NextDb]_vars

\* invocations of the image guard
InitEcr == SchedIdle /\ DeployIdle /\ LogIdle /\ DbIdle /\ EcrInit /\ CfgIdle /\ OverlapIdle /\ SlackIdle /\ TriggerIdle

NextEcr ==
  \/ ecrValidate
  \/ ecrPush

SpecEcr == InitEcr /\ [][NextEcr]_vars

\* bin/app.ts choosing the profile
InitCfg == SchedIdle /\ DeployIdle /\ LogIdle /\ DbIdle /\ EcrIdle /\ CfgInit /\ OverlapIdle /\ SlackIdle /\ TriggerIdle

NextCfg == appConfig

SpecCfg == InitCfg /\ [][NextCfg]_vars

\* invocations of the Slack notifier in one process after another
InitSlack == SchedIdle /\ DeployIdle /\ LogIdle /\ DbIdle /\ EcrIdle /\ CfgIdle /\ OverlapIdle /\ SlackInit /\ TriggerIdle

NextSlack ==
  \/ slackHandler
  \/ slackSecretChange
  \/ slackColdStart

SpecSlack == InitSlack /\ [][NextSlack]_vars

\* the scheduler handlers as the triggers of an environment invoke them
InitTrigger ==
  SchedInit /\ DeployIdle /\ LogIdle /\ DbIdle /\ EcrIdle /\ CfgIdle /\ OverlapIdle /\ SlackIdle /\ TriggerInit

NextTrigger ==
  \/ triggerFires
  \/ rdsProgress
  \/ ec2Poll
  \/ ec2Progress
  \/ invocationEnds

SpecTrigger == InitTrigger /\ [][NextTrigger]_vars

\* two overlapping runs of the DB bootstrap
InitOverlapDb == SchedIdle /\ DeployIdle /\ LogIdle /\ EcrIdle /\ CfgIdle /\ OverlapDbInit /\ SlackIdle /\ TriggerIdle

NextOverlapDb ==
  \/ overlapRead
  \/ overlapQuery
  \/ overlapRotate

SpecOverlapDb == InitOverlapDb /\ [][NextOverlapDb]_vars

\* two overlapping invocations of the fleet scheduler
InitOverlapFleet == DeployIdle /\ LogIdle /\ DbIdle /\ EcrIdle /\ CfgIdle /\ OverlapFleetInit /\ SlackIdle /\ TriggerIdle

NextOverlapFleet ==
  \/ fleetInvoke
  \/ fleetSend

SpecOverlapFleet == InitOverlapFleet /\ [][NextOverlapFleet]_vars

----------------------------------------------------------------------------
(* Claims about the scheduler handlers (specification Spec)                *)

\* a rest day as the claims define it: the civil date in Asia/Tokyo is a
\* Saturday, a Sunday, or a date of the static holiday set
RestDay(date) ==
  LET c == JstCivil(date)
  IN  \/ c.dow \in {0, 6}
      \/ <<c.y, <<c.m \div 10, c.m % 10>>, <<c.d \div 10, c.d % 10>>>> \in holidays

StartRequested == action \in {"start", "up"}
StopRequested == action \in {"stop", "down"}

\* C1 (as stated): on a rest day every 'start'/'up' invocation, of each of the
\* three handlers and in every state of the target, returns {skipped: true}
\* and has sent no start command (invocations in which the provider rejected
\* a command transiently are left aside).
C1_RestDayStartReturnsSkipped ==
  (pc = "done" /\ StartRequested /\ RestDay(now) /\ faults = {}) =>
    (ret = "skipped" /\ calls \cap StartCalls = {})

\* C1 (amended): on a rest day no 'start'/'up' invocation sends a start
\* command; the ECS and RDS handlers return {skipped: true}; the bastion
\* handler returns {skipped: true} when its first DescribeInstances shows the
\* instance neither running nor pending, and never when it shows it running or
\* pending (it then goes on to the DNS update).
C1_RestDayNoStartCall ==
  (StartRequested /\ RestDay(now)) =>
    /\ calls \cap StartCalls = {}
    /\ (pc = "done" /\ fn \in {"ecs", "rds"}) => ret = "skipped"
    /\ (pc = "done" /\ fn = "ec2" /\ before \in {"running", "pending"}) => ret \in {"ok", "threw", "timeout"}
    /\ (pc = "done" /\ fn = "ec2" /\ before \notin {"running", "pending"}) =>
          /\ ret \in {"skipped", "threw"}
          /\ faults = {} => ret = "skipped"

\* witness of C1: a bastion 'start' on a rest day that found the instance
\* running and returned {ok: true} without a StartInstances
C1_Witness ==
  /\ fn = "ec2" /\ pc = "done" /\ action = "start" /\ RestDay(now)
  /\ before = "running" /\ ret = "ok" /\ StartInstances \notin calls

\* C2: every 'stop'/'down' invocation sends its stop command(s), on rest days
\* and working days alike.
C2_StopAlwaysSent ==
  (pc = "done" /\ StopRequested) => StopCalls(fn) \subseteq calls

\* witness of C2: a fleet 'down' on a rest day that sent all three commands
C2_Witness ==
  /\ fn = "ecs" /\ pc = "done" /\ action = "down" /\ RestDay(now)
  /\ StopCalls("ecs") \subseteq calls

\* the target was already stopped (at count 0) when the invocation began
AlreadyStopped ==
  IF fn = "ecs" THEN before = [s \in Services |-> 0] ELSE before = "stopped"

\* C3: a 'stop'/'down' on a target that is already stopped returns {ok: true}
\* (no transient provider error being involved).
C3_StopOnStoppedReturnsOk ==
  (pc = "done" /\ StopRequested /\ faults = {} /\ AlreadyStopped) => ret = "ok"

----------------------------------------------------------------------------
(* Claims about the Parameter Bridge and the deployments (SpecDeploy)      *)

\* C4: the parameter store behaves as a map under publish and teardown: every
\* publish of a key succeeds and overwrites, whether or not the key exists,
\* so a resolve returns the most recently published value, and a key deleted
\* by its stack's teardown is absent afterwards.
C4_StoreIsUpsertMap == store = expect

\* C5: the deployment of a stack that resolves a parameter which is absent
\* from the store fails: the stack is not created or updated, it publishes
\* nothing, and the run stops; it never completes with an empty or default
\* value in place of the parameter.
C5_MissingKeyFailsDeployment ==
  [][\A s \in Stacks :
       (/\ s \notin done /\ s \in done'
        /\ \E k \in Resolves(s, project, environment) : store[k] = Absent)
         => (~lastDeploy'.ok /\ run' = "failed" /\ stk' = stk /\ store' = store)]_vars

\* witness of C5: a deployment of the Alarms stack that failed on a Parameter
\* Bridge key absent from the store
C5_Witness ==
  /\ lastDeploy.stack = "alarms" /\ ~lastDeploy.ok
  /\ \E k \in BridgeResolves("alarms", project, environment) : store[k] = Absent

\* the stacks that publish a key the stack c resolves
PublisherStacks(c) ==
  {s \in Stacks : Publishes(s, project, environment) \cap BridgeResolves(c, project, environment) # {}}

\* C6: in every order the declared dependencies allow, a stack is deployed
\* after the stacks that publish the keys it resolves.
C6_ConsumersAfterPublishers ==
  \A c \in done : PublisherStacks(c) \cap AppStacks \subseteq done

----------------------------------------------------------------------------
(* Claims about the log transform (SpecLog)                                *)

\* the record carries a CloudWatch Logs payload (gzip of the JSON of an object)
IsPayload(record) ==
  /\ record.data.base64.gzip
  /\ record.data.base64.text.json
  /\ record.data.base64.text.value.kind = "object"

PayloadOf(record) == record.data.base64.text.value

IsDataMessage(record) ==
  /\ IsPayload(record)
  /\ PayloadOf(record).messageType = "DATA_MESSAGE"
  /\ PayloadOf(record).logEvents.defined

\* the lines of a newline-delimited text (a final newline ends the last line)
RECURSIVE SplitLines(_, _, _)
SplitLines(text, line, lines) ==
  IF text = <<>> THEN (IF line = <<>> THEN lines ELSE Append(lines, line))
  ELSE IF Head(text) = NL THEN SplitLines(Tail(text), <<>>, Append(lines, line))
  ELSE SplitLines(Tail(text), Append(line, Head(text)), lines)

\* base64-decoding the data of an output record and splitting it into lines
DecodedLines(data) == SplitLines(fromBase64(data), <<>>, <<>>)

\* the object has the field k with the value v
HasField(members, k, v) == \E i \in 1..Len(members) : members[i] = [k |-> k, v |-> v]

\* C7: a record whose payload has messageType CONTROL_MESSAGE or TEST_MESSAGE
\* is returned with result 'Dropped' and its original data.
C7_NonDataMessageDropped ==
  \A j \in 1..Len(transformed) :
    LET record == event.records[j]
    IN  (IsPayload(record) /\ PayloadOf(record).messageType \in {"CONTROL_MESSAGE", "TEST_MESSAGE"})
          => transformed[j] = [recordId |-> record.recordId, result |-> "Dropped", data |-> record.data]

\* witness of C7: a dropped CONTROL_MESSAGE record that holds a JSON object
\* log line with a valid timestamp
C7_Witness ==
  \E j \in 1..Len(transformed) :
    LET record == event.records[j]
    IN  /\ IsPayload(record)
        /\ PayloadOf(record).messageType = "CONTROL_MESSAGE"
        /\ \E i \in 1..Len(PayloadOf(record).logEvents.items) :
             LET logEvent == PayloadOf(record).logEvents.items[i]
             IN  /\ JSONparse(logEvent.message).ok
                 /\ JSONparse(logEvent.message).value.kind = "object"
                 /\ ValidDate(logEvent.timestamp)
        /\ transformed[j].result = "Dropped"

\* the log event is a JSON object
IsObjectEvent(logEvent) ==
  LET json == JSONparse(trim(logEvent.message))
  IN  trim(logEvent.message) # <<>> /\ json.ok /\ json.value.kind = "object"

\* C8: in a DATA_MESSAGE record, the events whose trimmed message is empty,
\* is no JSON, or is JSON but no object (number, string, boolean, null, array)
\* add no line to the output and never make the record 'ProcessingFailed':
\* the record's outcome is that of its JSON object events alone.
C8_NonObjectEventsContributeNothing ==
  \A j \in 1..Len(transformed) :
    LET record == event.records[j]
        objects == SelectSeq(PayloadOf(record).logEvents.items, IsObjectEvent)
    IN  (IsDataMessage(record) /\ \A i \in 1..Len(objects) : ValidDate(objects[i].timestamp))
          => IF objects = <<>> THEN transformed[j].result = "Dropped"
             ELSE /\ transformed[j].result = "Ok"
                  /\ Len(DecodedLines(transformed[j].data)) = Len(objects)

\* the log event passes the transform's filter
Survives(logEvent) ==
  LET json == JSONparse(trim(logEvent.message))
  IN  trim(logEvent.message) # <<>> /\ json.ok /\ json.value.kind \in {"object", "array"}

Survivors(record) == SelectSeq(PayloadOf(record).logEvents.items, Survives)

DerivedNames == {<<"log_group">>, <<"log_stream">>, <<"ingestion_time_iso">>}

\* every line of an 'Ok' record is a JSON object with the three derived fields
\* and with the fields of the original log object, but for those named in
\* `except`
RoundTrip(except) ==
  \A j \in 1..Len(transformed) :
    transformed[j].result = "Ok" =>
      LET record == event.records[j]
          payload == PayloadOf(record)
          lines == DecodedLines(transformed[j].data)
      IN  /\ Len(lines) = Len(Survivors(record))
          /\ \A i \in 1..Len(lines) :
               LET line == JSONparse(lines[i])
                   logEvent == Survivors(record)[i]
                   original == JSONparse(trim(logEvent.message)).value.members
               IN  /\ line.ok /\ line.value.kind = "object"
                   /\ HasField(line.value.members, <<"log_group">>, Str(<<payload.logGroup>>))
                   /\ HasField(line.value.members, <<"log_stream">>, Str(<<payload.logStream>>))
                   /\ HasField(line.value.members, <<"ingestion_time_iso">>,
                               Str(toISOString(logEvent.timestamp)))
                   /\ \A m \in 1..Len(original) :
                        original[m].k \notin except
                          => HasField(line.value.members, original[m].k, original[m].v)

\* C9 as stated: every line of an 'Ok' record is an object containing
\* log_group, log_stream, ingestion_time_iso and all fields of the original
\* log object.
C9_LinesContainAllOriginalFields == RoundTrip({})

\* C9: every line of an 'Ok' record is an object containing log_group (the
\* payload's logGroup), log_stream (its logStream), ingestion_time_iso (the
\* ISO form of the event's timestamp) and every field of the original log
\* object that is not named like one of these three.
C9_LinesContainOtherOriginalFields == RoundTrip(DerivedNames)

\* witness of C9: an 'Ok' record of a log object that has a log_group field
\* of its own, and another field
C9_Witness ==
  \E j \in 1..Len(transformed) :
    /\ transformed[j].result = "Ok"
    /\ \E i \in 1..Len(Survivors(event.records[j])) :
         LET original == JSONparse(trim(Survivors(event.records[j])[i].message)).value.members
         IN  /\ HasField(original, <<"log_group">>, Str(<<"x">>))
             /\ HasField(original, <<"b">>, Lit("true"))

\* the lines the surviving events of a record give, in the order of logEvents
ExpectedLines(record) ==
  [i \in 1..Len(Survivors(record)) |->
     JSONstringify(enrich(JSONparse(trim(Survivors(record)[i].message)).value,
                          PayloadOf(record), Survivors(record)[i]))]

\* C10 as stated: a DATA_MESSAGE record with k surviving events gives a
\* single 'Ok' record with exactly the k enriched objects in input order, and
\* is 'Dropped' if and only if k = 0.
C10_SurvivorsGiveOkRecord ==
  /\ Len(transformed) = idx - 1
  /\ \A j \in 1..Len(transformed) :
       LET record == event.records[j]
       IN  IsDataMessage(record) =>
             /\ transformed[j].result = "Dropped" <=> Survivors(record) = <<>>
             /\ Survivors(record) # <<>> =>
                  /\ transformed[j].result = "Ok"
                  /\ DecodedLines(transformed[j].data) = ExpectedLines(record)

TimestampsValid(logEvents) == \A i \in 1..Len(logEvents) : ValidDate(logEvents[i].timestamp)

\* C10: a DATA_MESSAGE record with k surviving events is 'Dropped' if and
\* only if k = 0; with k > 0 and every surviving timestamp formattable it gives
\* a single 'Ok' record with exactly the k enriched objects in input order;
\* with a surviving timestamp that cannot be formatted it is 'ProcessingFailed'
\* with its original data.
C10_SurvivorsGiveOkRecordIfFormattable ==
  /\ Len(transformed) = idx - 1
  /\ \A j \in 1..Len(transformed) :
       LET record == event.records[j]
       IN  IsDataMessage(record) =>
             /\ transformed[j].result = "Dropped" <=> Survivors(record) = <<>>
             /\ (Survivors(record) # <<>> /\ TimestampsValid(Survivors(record))) =>
                  /\ transformed[j].result = "Ok"
                  /\ DecodedLines(transformed[j].data) = ExpectedLines(record)
             /\ ~TimestampsValid(Survivors(record)) =>
                  transformed[j] = [recordId |-> record.recordId, result |-> "ProcessingFailed",
                                    data |-> record.data]

\* witness of C10: an 'Ok' record with two surviving events of different
\* timestamps
C10_Witness ==
  \E j \in 1..Len(transformed) :
    LET record == event.records[j]
    IN  /\ IsDataMessage(record)
        /\ Len(Survivors(record)) = 2
        /\ Survivors(record)[1].timestamp # Survivors(record)[2].timestamp
        /\ transformed[j].result = "Ok"

----------------------------------------------------------------------------
(* Claims about the log transform's batches (SpecBatch)                     *)

\* the processing of the record raises: its data is no gzip, its payload is
\* no JSON or is null, or an event that passes the filter has a timestamp that
\* cannot be formatted
Raises(record) ==
  \/ ~record.data.base64.gzip
  \/ ~record.data.base64.text.json
  \/ record.data.base64.text.value.kind = "null"
  \/ /\ IsDataMessage(record)
     /\ ~TimestampsValid(Survivors(record))

\* C11: the handler returns one result per record of the batch, with the
\* record's recordId and in input order; a record whose processing raises is
\* returned 'ProcessingFailed' with its original data, and every record gets
\* the result it would get alone, whatever the other records of the batch.
C11_BatchNeverFails ==
  /\ Len(transformed) = idx - 1
  /\ returned => Len(transformed) = Len(event.records)
  /\ \A j \in 1..Len(transformed) :
       LET record == event.records[j]
       IN  /\ transformed[j].recordId = record.recordId
           /\ transformed[j].result \in {"Ok", "Dropped", "ProcessingFailed"}
           /\ Raises(record) =>
                /\ transformed[j].result = "ProcessingFailed"
                /\ transformed[j].data = record.data
           /\ <<transformed[j]>> = processRecord(record)

\* witness of C11: a returned batch whose first record raised and whose second
\* record is 'Ok'
C11_Witness ==
  /\ returned
  /\ Len(event.records) >= 2
  /\ Raises(event.records[1])
  /\ transformed[1].result = "ProcessingFailed"
  /\ transformed[2].result = "Ok"

----------------------------------------------------------------------------
(* Claims about the DB bootstrap (SpecDb)                                   *)

CreateOrUpdateReturned == bpc = "returned" /\ request.RequestType \in {"Create", "Update"}

\* C12: a Delete request reads no secret, makes no connection attempt and
\* issues no statement; it returns the PhysicalResourceId it was given, or,
\* given none, DB_HOST:DB_NAME when both are set and 'db-init' otherwise, and
\* never an empty value.
C12_DeleteIsNoOp ==
  request.RequestType = "Delete" =>
    /\ bpc = "returned"
    /\ read = NoSecrets /\ tries = 0 /\ pos = 0
    /\ response # NoId
    /\ request.PhysicalResourceId # NoId => response = request.PhysicalResourceId
    /\ request.PhysicalResourceId = NoId =>
         response = IF dbEnv.DB_HOST # "" /\ dbEnv.DB_NAME # ""
                    THEN <<dbEnv.DB_HOST, ":", dbEnv.DB_NAME>> ELSE <<"db-init">>

\* witness of C12: a Delete that was given a PhysicalResourceId other than the
\* one the environment would give
C12_Witness ==
  /\ request.RequestType = "Delete" /\ bpc = "returned"
  /\ dbEnv.DB_HOST # "" /\ dbEnv.DB_NAME # ""
  /\ request.PhysicalResourceId = <<"physical-id-1">>
  /\ response = <<"physical-id-1">>

\* C13: a completed Create/Update run issues no DROP statement, and when the
\* secrets are as they were at the previous completed run it leaves the
\* accounts (existence, passwords, grants) as that run left them.
C13_SecondRunChangesNothing ==
  CreateOrUpdateReturned =>
    /\ \A i \in 1..pos : Statements(read)[i].kind \notin
         {"DROP USER", "DROP USER IF EXISTS", "DROP DATABASE", "DROP TABLE"}
    /\ (lastRun.valid /\ lastRun.secrets = secretStore) => accounts = lastRun.accounts

\* witness of C13: a second completed run with the secrets of the first
C13_Witness ==
  /\ CreateOrUpdateReturned
  /\ lastRun.valid /\ lastRun.secrets = secretStore
  /\ accounts["appuser"].exists /\ accounts["readonly"].exists

\* C14: the read-only account never holds a privilege other than SELECT, and
\* after a completed Create/Update run the application account does not hold
\* DROP.
C14_MinimalPrivileges ==
  /\ accounts["readonly"].privs \subseteq {"SELECT"}
  /\ CreateOrUpdateReturned =>
       /\ accounts["appuser"].exists
       /\ "DROP" \notin accounts["appuser"].privs

\* witness of C14: a completed run after which the application account holds
\* every privilege but DROP and the read-only account holds SELECT
C14_Witness ==
  /\ CreateOrUpdateReturned
  /\ accounts["appuser"].privs = Privileges \ {"DROP"}
  /\ accounts["readonly"].privs = {"SELECT"}

\* C15: at most 12 connection attempts are made; after 12 failed attempts the
\* loop is over and the run has thrown without a statement issued; once
\* connected, no further attempt is made.
C15_ConnectAtMostTwelveTimes ==
  /\ [](/\ tries <= 12
        /\ bpc = "connect" => tries < 12
        /\ (bpc = "threw" /\ pos = 0 /\ tries > 0) => tries = 12)
  /\ [][bpc = "query" => tries' = tries]_vars

\* witness of C15: the run threw after 12 failed attempts
C15_Witness == bpc = "threw" /\ tries = 12 /\ pos = 0

\* C16: a Create/Update run works with the three secrets as they are in the
\* secret store at that run, and when it completes the database password of
\* each of the three accounts is the password in its secret.
C16_RotatedPasswordsApplied ==
  /\ bpc \in {"connect", "query"} => read = getSecrets(secretStore)
  /\ CreateOrUpdateReturned =>
       /\ read = getSecrets(secretStore)
       /\ adminPass = secretStore["master"]
       /\ \A r \in {"appuser", "readonly"} :
            accounts[r].exists /\ accounts[r].pass = secretStore[r]

\* witness of C16: a completed run after the application secret was rotated,
\* the account existing from the previous run
C16_Witness ==
  /\ CreateOrUpdateReturned
  /\ lastRun.valid /\ lastRun.accounts["appuser"].exists
  /\ lastRun.secrets["appuser"] # secretStore["appuser"]
  /\ accounts["appuser"].pass = secretStore["appuser"]

----------------------------------------------------------------------------
(* Claims about the image guard (SpecEcr)                                   *)

RequestedTag == IF ecrEvent.ResourceProperties.ImageTag # ""
                THEN ecrEvent.ResourceProperties.ImageTag ELSE "latest"

\* C17: for a Create or Update request the guard returns a PhysicalResourceId
\* only if the repository holds the tag and no media type of the image shows
\* a manifest list or image index; for an absent tag it throws the error that
\* tells to push the image first; for a media type containing "manifest.list"
\* it throws the error that names the repository and the tag.
C17_GuardOutcome ==
  (ecrEvent.RequestType \in {"Create", "Update"} /\ ecrOutcome # NotRun) =>
    LET details == ecrImages[RequestedTag]
    IN  /\ ecrOutcome.kind = "returned" =>
             /\ details.present
             /\ details.artifactMediaType \notin {DockerManifestList, OciImageIndex}
             /\ details.imageManifestMediaType \notin {DockerManifestList, OciImageIndex}
        /\ ~details.present =>
             /\ ecrOutcome.kind = "threw"
             /\ ecrOutcome.id = "ECR tag not found. Push the image before deploy."
        /\ (details.present /\ DockerManifestList \in
              {details.artifactMediaType, details.imageManifestMediaType}) =>
             /\ ecrOutcome.kind = "threw"
             /\ ecrOutcome.repo = ecrEvent.ResourceProperties.RepositoryName
             /\ ecrOutcome.tag = RequestedTag

----------------------------------------------------------------------------
(* Claims about the environment profiles (SpecCfg)                          *)

Profiles == {envConfigs.dev, envConfigs.staging, envConfigs.prod}

\* C18: for every environment name getEnvConfig returns one of the three
\* profiles, with all fields defined: the profile of that name for dev,
\* staging and prod, the dev profile for every other name.
C18_AlwaysAProfile ==
  configured =>
    /\ config \in Profiles
    /\ DOMAIN config = {"ecs", "rds", "logsRetentionDays"}
    /\ envName \in {"dev", "staging", "prod"} => config = envConfigs[envName]
    /\ envName \notin {"dev", "staging", "prod"} => config = envConfigs.dev

----------------------------------------------------------------------------
(* Claims about the key names and the credential secrets (SpecDeploy)       *)

\* every key the template of stack s publishes or resolves
Addressed(s, p, e) == Publishes(s, p, e) \cup Resolves(s, p, e)

\* C19: every key a deployed stack publishes or resolves is
\* /{project}/{environment}/{category}/{name} with the deployment's own project
\* and environment and a category among rds, ecs, alb, bastion and webauthn; so
\* a deployment of another project addresses none of these keys.
C19_KeysFromOwnProjectAndEnvironment ==
  lastDeploy.stack # "none" =>
    /\ \A k \in Addressed(lastDeploy.stack, project, environment) :
         /\ k[1] = project
         /\ k[2] = environment
         /\ k[3] \in {"rds", "ecs", "alb", "bastion", "webauthn"}
    /\ \A p \in Projects \ {project} :
         Addressed(lastDeploy.stack, p, environment)
           \cap Addressed(lastDeploy.stack, project, environment) = {}

\* C20: once the credential secrets of the environment exist, no deployment
\* of the RDS stack deletes or replaces them: a deployment of the RDS stack
\* that starts with the secrets present ends with them present.
C20_SecretsKeptAcrossDeployments ==
  [][deployRds => (secretsExist => secretsExist')]_vars

----------------------------------------------------------------------------
(* Claims about the WebAuthn parameters (SpecDeploy)                        *)

WebauthnAbsent == \A k \in webauthnParameterNames(environment) : store[k] = Absent
WebauthnPresent == \A k \in webauthnParameterNames(environment) : store[k] # Absent
BridgeResolvable(s) == \A k \in BridgeResolves(s, project, environment) : store[k] # Absent

----------------------------------------------------------------------------
(* Further claims about the scheduler handlers (Spec)                       *)

\* the step is a poll that sends the UPSERT
PollUpserts == ec2Poll /\ ChangeResourceRecordSets \in calls' \ calls

\* the step ends the polling loop without an UPSERT and without a provider error
PollGivesUp ==
  /\ ec2Poll /\ pc' = "done"
  /\ ChangeResourceRecordSets \notin calls'
  /\ faults' = faults

StartStopRejected ==
  \/ fn = "ecs" /\ faults # {}
  \/ fn = "rds" /\ faults # {}
  \/ fn = "ec2" /\ faults # {} /\ faults \subseteq {StartInstances, StopInstances}

\* C23: an invocation in which the provider rejected the start or stop
\* command itself returns a result object, in each of the three handlers: it
\* does not throw.
C23_StartStopErrorsSwallowed ==
  (pc = "done" /\ StartStopRejected) => ret # "threw"

----------------------------------------------------------------------------
(* Further claims about the DB bootstrap (SpecDb)                           *)

----------------------------------------------------------------------------
(* Claims about overlapping invocations (SpecOverlapFleet, SpecOverlapDb)   *)

BothSent == \A r \in RunIds : fleet[r].action # "none" /\ fleet[r].pending = {}

\* C25: when two overlapping invocations of the fleet scheduler have both
\* completed, the three services have the same desired count, and it is the
\* count one of the two invocations asked for.
C25_FleetUniformAfterOverlap ==
  BothSent => \E r \in RunIds : \A s \in Services : svc[s] = fleet[r].count

BothRunsDone == \A r \in RunIds : runs[r].pc = "done"

\* C26: when two overlapping Create/Update runs have both completed (a secret
\* having possibly been rotated between their reads), each non-admin account
\* has the password now in the secret store and the grants of a single run.
C26_OverlappingRunsConverge ==
  BothRunsDone => accounts = Converged(secretStore)

\* C29: once a first Create/Update run has completed, the application account
\* holds no DROP privilege in any state, the states between the statements of
\* later runs included.
C29_AppUserNeverHoldsDrop ==
  lastRun.valid => "DROP" \notin accounts.appuser.privs

----------------------------------------------------------------------------
(* Claims about in-process state (SpecSlack)                                *)

\* what an invocation does in a process that has run no invocation before
FreshRun(secretUrl, ev) == slackRun(NoWebhook, secretUrl, ev)

\* C27: an invocation behaves as its event and the external state at that
\* time determine, whether or not earlier invocations ran in the same process:
\* what an invocation of the Slack notifier sent (or that it threw) is what an
\* invocation in a fresh process would have done with the same event and the
\* same secret.
C27_InvocationIndependentOfProcessHistory ==
  [][slackHandler =>
       /\ slackOutcome'.threw = FreshRun(slackSecret, slackEvent').threw
       /\ slackOutcome'.posts = FreshRun(slackSecret, slackEvent').posts]_vars

----------------------------------------------------------------------------
(* Claims about the triggers (SpecTrigger)                                  *)

\* C28: in staging and prod no invocation has the action 'stop' or 'down',
\* no stop command is ever sent (StopInstances, StopDBInstance, UpdateService
\* to 0), and the only invocations are those of the bastion handler with
\* 'start'; the handlers of the fleet and of the database are invoked in dev
\* only.
C28_NoStopOutsideDev ==
  trigEnv \in {"staging", "prod"} =>
    /\ ~StopRequested
    /\ calls \cap (StopCalls("ecs") \cup StopCalls("rds") \cup StopCalls("ec2")) = {}
    /\ pc # "idle" => (fn = "ec2" /\ action = "start")

\* the rule on the running instance invoked the bastion handler in prod, which
\* found the instance running and returned
C28_Witness ==
  /\ trigEnv = "prod" /\ fn = "ec2" /\ pc = "done" /\ action = "start"
  /\ before = "running" /\ DescribeInstances \in calls /\ ret = "ok"

====
